---- MODULE Spec2Model ----
(***************************************************************************)
(* A model of ffs, a tag-based virtual filesystem (notgne2/ffs).           *)
(*                                                                         *)
(* The index (points, tags, joins) is the SQLite store the mount reads.    *)
(* The mount state is the Ffs struct of src/src/ffs.rs.  Path components   *)
(* are TLA+ strings; a path (PathBuf) is the sequence of its normal        *)
(* components.  An Option<T> is a sequence of length at most one:          *)
(* None is << >> and Some(x) is << x >>.                                   *)
(***************************************************************************)
EXTENDS Integers, Sequences, FiniteSets, TLC

VARIABLES
    points,        \* table points(id, name, path?, hash, dir)
    tags,          \* table tags(id, name, value?, sort_value?)
    joins,         \* table joins(id, tag_id, point_id)
    next_ino,      \* Ffs.next_ino
    next_fh,       \* Ffs.next_fh
    path_to_ino,   \* Ffs.path_to_ino
    ino_to_path,   \* Ffs.ino_to_path
    ino_to_point,  \* Ffs.ino_to_point
    fh_to_path,    \* Ffs.fh_to_path
    extra_dirs,    \* Ffs.extra_dirs (a Vec: order and duplicates kept)
    dir_entries,   \* Ffs.dir_entries, the readdir cache
    reply          \* the last upcall (or query) and what it replied

index == <<points, tags, joins>>
mount == <<next_ino, next_fh, path_to_ino, ino_to_path, ino_to_point,
           fh_to_path, extra_dirs, dir_entries>>
vars == <<points, tags, joins, next_ino, next_fh, path_to_ino, ino_to_path,
          ino_to_point, fh_to_path, extra_dirs, dir_entries, reply>>

(***************************************************************************)
(* Bounds of the model.                                                    *)
(***************************************************************************)
MaxIds == 3      \* inodes and file handles handed out in one run, together
MaxExtra == 1    \* mkdir is taken while Len(extra_dirs) < MaxExtra
MaxOffset == 4   \* readdir offsets are drawn from 0..MaxOffset
MaxParts == 2    \* longest directory path drawn for the listings
MaxJoins == 3    \* most rows of joins in an index drawn for the queries

(***************************************************************************)
(* Options.                                                                *)
(***************************************************************************)
None == << >>
Some(x) == << x >>
IsSome(o) == Len(o) = 1
Unwrap(o) == o[1]

(***************************************************************************)
(* Strings: characters, str::split, str::parse, Display for integers.      *)
(***************************************************************************)
Ch(s, i) == SubSeq(s, i, i)

Digits == <<"0", "1", "2", "3", "4", "5", "6", "7", "8", "9">>
DigitChars == {Digits[i] : i \in 1..10}
DigitVal(c) == (CHOOSE i \in 1..10 : Digits[i] = c) - 1

\* The class \w of the regex crate, restricted to ASCII.
WordChars == DigitChars \cup {"_"} \cup
    {"a", "b", "c", "d", "e", "f", "g", "h", "i", "j", "k", "l", "m",
     "n", "o", "p", "q", "r", "s", "t", "u", "v", "w", "x", "y", "z"} \cup
    {"A", "B", "C", "D", "E", "F", "G", "H", "I", "J", "K", "L", "M",
     "N", "O", "P", "Q", "R", "S", "T", "U", "V", "W", "X", "Y", "Z"}
\* The class \s, restricted to ASCII.
SpaceChars == {" ", "\t", "\n", "\r", "\f"}

IsWord(c) == c \in WordChars
IsSpace(c) == c \in SpaceChars

\* Whether sep occurs in s at position i.
OccursAt(s, sep, i) ==
    /\ i + Len(sep) - 1 <= Len(s)
    /\ SubSeq(s, i, i + Len(sep) - 1) = sep

\* str::split(sep): the pieces between the leftmost non-overlapping
\* occurrences of sep, scanning from position i, the current piece
\* having started at position from.
RECURSIVE SplitFrom(_, _, _, _)
SplitFrom(s, sep, from, i) ==
    IF i > Len(s) THEN << SubSeq(s, from, Len(s)) >>
    ELSE IF OccursAt(s, sep, i)
         THEN << SubSeq(s, from, i - 1) >>
              \o SplitFrom(s, sep, i + Len(sep), i + Len(sep))
         ELSE SplitFrom(s, sep, from, i + 1)

Split(s, sep) == SplitFrom(s, sep, 1, 1)

\* All characters of s in positions i..Len(s) are ASCII digits.
RECURSIVE AllDigitsFrom(_, _)
AllDigitsFrom(s, i) ==
    \/ i > Len(s)
    \/ Ch(s, i) \in DigitChars /\ AllDigitsFrom(s, i + 1)

\* The value of the digits of s in positions i..Len(s), acc so far.
RECURSIVE DigitsValue(_, _, _)
DigitsValue(s, i, acc) ==
    IF i > Len(s) THEN acc
    ELSE DigitsValue(s, i + 1, acc * 10 + DigitVal(Ch(s, i)))

\* str::parse::<i32>() and str::parse::<i64>(): an optional sign, then one
\* or more digits and nothing else.  The strings of the model have fewer
\* than ten digits, so neither width overflows.
ParseDigits(s, first, sign) ==
    IF first <= Len(s) /\ AllDigitsFrom(s, first)
    THEN Some(sign * DigitsValue(s, first, 0))
    ELSE None

ParseInt(s) ==
    IF Len(s) >= 1 /\ Ch(s, 1) = "-" THEN ParseDigits(s, 2, 0 - 1)
    ELSE IF Len(s) >= 1 /\ Ch(s, 1) = "+" THEN ParseDigits(s, 2, 1)
    ELSE ParseDigits(s, 1, 1)

\* format!("{}", n) for an integer.
RECURSIVE NatToStr(_)
NatToStr(n) ==
    IF n < 10 THEN Digits[n + 1]
    ELSE NatToStr(n \div 10) \o Digits[(n % 10) + 1]

IntToStr(n) == IF n < 0 THEN "-" \o NatToStr(0 - n) ELSE NatToStr(n)

(***************************************************************************)
(* QUERY_RE, the regex (\w+)\s*(<|>|=|!=)\s*(.+) of src/src/main.rs, with  *)
(* the leftmost-first semantics of Regex::captures.                        *)
(***************************************************************************)
\* The last position of the run of word characters that holds position i.
RECURSIVE WordEnd(_, _)
WordEnd(s, i) ==
    IF i < Len(s) /\ IsWord(Ch(s, i + 1)) THEN WordEnd(s, i + 1) ELSE i

\* The first position at or after i that holds no white space.
RECURSIVE SkipSpaces(_, _)
SkipSpaces(s, i) ==
    IF i <= Len(s) /\ IsSpace(Ch(s, i)) THEN SkipSpaces(s, i + 1) ELSE i

\* (<|>|=|!=) at position j, "" when none of them is there.
OperatorAt(s, j) ==
    IF j <= Len(s) /\ Ch(s, j) \in {"<", ">", "="} THEN Ch(s, j)
    ELSE IF OccursAt(s, "!=", j) THEN "!="
    ELSE ""

\* \s*(.+) from position k, m being the first position after the white
\* space: when nothing is left for (.+), \s* gives its last character back.
MatchValue(s, name, op, k, m) ==
    IF m <= Len(s)
    THEN Some([name |-> name, op |-> op, value |-> SubSeq(s, m, Len(s))])
    ELSE IF k <= Len(s)
    THEN Some([name |-> name, op |-> op, value |-> Ch(s, Len(s))])
    ELSE None

MatchOperator(s, name, op, j) ==
    IF op = "" THEN None
    ELSE MatchValue(s, name, op, j + Len(op), SkipSpaces(s, j + Len(op)))

MatchName(s, i, e, j) == MatchOperator(s, SubSeq(s, i, e), OperatorAt(s, j), j)

\* The match that starts at the word character in position i, if any:
\* \w+ takes the whole run of word characters, \s* all the white space.
MatchRun(s, i, e) == MatchName(s, i, e, SkipSpaces(s, e + 1))
MatchAt(s, i) == MatchRun(s, i, WordEnd(s, i))

\* The leftmost match at or after position i.
RECURSIVE CapturesFrom(_, _)
RECURSIVE FirstMatch(_, _, _)
FirstMatch(s, i, m) ==
    IF IsSome(m) THEN m ELSE CapturesFrom(s, WordEnd(s, i) + 1)

CapturesFrom(s, i) ==
    IF i > Len(s) THEN None
    ELSE IF IsWord(Ch(s, i)) THEN FirstMatch(s, i, MatchAt(s, i))
    ELSE CapturesFrom(s, i + 1)

QueryCaptures(s) == CapturesFrom(s, 1)

(***************************************************************************)
(* The index.  A table is the set of its rows; a load returns the rows in  *)
(* the order of the primary key (SQLite's scan of a rowid table).          *)
(***************************************************************************)
RECURSIVE SortById(_)
RECURSIVE SortByIdFrom(_, _)
SortByIdFrom(rows, r) == << r >> \o SortById(rows \ {r})
SortById(rows) ==
    IF rows = {} THEN << >>
    ELSE SortByIdFrom(rows, CHOOSE x \in rows : \A y \in rows : x.id <= y.id)

Range(seq) == {seq[i] : i \in 1..Len(seq)}

RECURSIVE Concat(_)
Concat(seqs) == IF seqs = << >> THEN << >> ELSE Head(seqs) \o Concat(Tail(seqs))

\* format_tag: the display string of a tag.
FormatTag(tag) ==
    IF IsSome(tag.value) THEN tag.name \o " = " \o Unwrap(tag.value)
    ELSE tag.name

\* "<name>.<id>", the entry name of a point.
PointFullName(point) == point.name \o "." \o IntToStr(point.id)

\* get_tags_for_point
GetTagsForPoint(point) ==
    SortById({t \in tags : \E j \in joins : j.point_id = point.id /\ j.tag_id = t.id})

\* get_tags_for_points
GetTagsForPoints(ps) ==
    SortById({t \in tags :
                 \E j \in joins : j.tag_id = t.id
                                  /\ \E i \in 1..Len(ps) : ps[i].id = j.point_id})

\* The rows of tags that one disjunct selects when QUERY_RE matched it with
\* captures c, num being c.value parsed as an integer (the match arms of
\* get_tags_by_parts, in their order).  A comparison with a NULL column is
\* not true in SQL.
\* (Variant: the value string alone decides.)
SelectByValueOnly(c, num) ==
    IF c.op = "!="
    THEN {t \in tags : t.name = c.name /\ IsSome(t.value) /\ Unwrap(t.value) # c.value}
    ELSE IF c.op = "="
    THEN {t \in tags : t.name = c.name /\ t.value = Some(c.value)}
    ELSE {}
SelectByCaptures(c, num) ==
    IF c.op = ">" /\ IsSome(num)
    THEN {t \in tags : t.name = c.name /\ IsSome(t.sort_value)
                       /\ Unwrap(t.sort_value) > Unwrap(num)}
    ELSE IF c.op = "<" /\ IsSome(num)
    THEN {t \in tags : t.name = c.name /\ IsSome(t.sort_value)
                       /\ Unwrap(t.sort_value) < Unwrap(num)}
    ELSE IF c.op = "!=" /\ IsSome(num)
    THEN {t \in tags : t.name = c.name /\ IsSome(t.sort_value)
                       /\ Unwrap(t.sort_value) # Unwrap(num)}
    ELSE IF c.op = "=" /\ IsSome(num)
    THEN {t \in tags : t.name = c.name /\ t.sort_value = num}
    ELSE IF c.op = "!="
    THEN {t \in tags : t.name = c.name /\ IsSome(t.value) /\ Unwrap(t.value) # c.value}
    ELSE IF c.op = "="
    THEN {t \in tags : t.name = c.name /\ t.value = Some(c.value)}
    ELSE {}

\* The rows one disjunct selects, caps being what QUERY_RE captured in it.
SelectTags(tag_query, caps) ==
    IF IsSome(caps) THEN SelectByCaptures(Unwrap(caps), ParseInt(Unwrap(caps).value))
    ELSE {t \in tags : t.name = tag_query}

\* The tags of one disjunct of a tag expression, as loaded.
TagsForQuery(tag_query) == SortById(SelectTags(tag_query, QueryCaptures(tag_query)))

\* The tags of the disjuncts qs of one part, concatenated.
TagsForDisjuncts(qs) == Concat([d \in 1..Len(qs) |-> TagsForQuery(qs[d])])

\* get_tags_by_parts
GetTagsByParts(path_parts) ==
    [i \in 1..Len(path_parts) |-> TagsForDisjuncts(Split(path_parts[i], " or "))]

\* The ids of the points joined to one of the tags.
PointIdsOfTags(found_tags) ==
    {j.point_id : j \in {x \in joins : \E i \in 1..Len(found_tags) :
                                           found_tags[i].id = x.tag_id}}

\* The retain loop of get_points_by_parts: of the ids that some part
\* holds, those that every part holds.
\* (Variant: nothing is removed.)
RetainAllUnion(points_per_part) ==
    UNION {points_per_part[i] : i \in 1..Len(points_per_part)}
RetainAll(points_per_part) ==
    {x \in UNION {points_per_part[i] : i \in 1..Len(points_per_part)} :
        \A i \in 1..Len(points_per_part) : x \in points_per_part[i]}

\* The point ids of each part.  (Variant: of the last part only.)
PointsPerPartLast(found_tags_per_part) ==
    << PointIdsOfTags(found_tags_per_part[Len(found_tags_per_part)]) >>
PointsPerPart(found_tags_per_part) ==
    [i \in 1..Len(found_tags_per_part) |-> PointIdsOfTags(found_tags_per_part[i])]

PointsWithIds(ids) == SortById({p \in points : p.id \in ids})

\* get_points_by_parts.  The id vectors are used for membership only, so
\* they are sets here.
GetPointsByParts(path_parts) ==
    IF path_parts = << >> THEN SortById(points)
    ELSE PointsWithIds(RetainAll(PointsPerPart(GetTagsByParts(path_parts))))

(***************************************************************************)
(* Byte order of strings (Vec<String>::sort).                              *)
(***************************************************************************)
\* The printable ASCII characters in the order of their codes (without the
\* quote characters and the backslash, which no string of the model holds).
Ascii == " !#$%&()*+,-./0123456789:;<=>?@ABCDEFGHIJKLMNOPQRSTUVWXYZ[]^_abcdefghijklmnopqrstuvwxyz{|}~"

CharCode(c) == CHOOSE i \in 1..Len(Ascii) : Ch(Ascii, i) = c

\* a <= b in byte order, comparing from position i on.
RECURSIVE StrLeqFrom(_, _, _)
StrLeqFrom(a, b, i) ==
    IF i > Len(a) THEN TRUE
    ELSE IF i > Len(b) THEN FALSE
    ELSE IF Ch(a, i) = Ch(b, i) THEN StrLeqFrom(a, b, i + 1)
    ELSE CharCode(Ch(a, i)) < CharCode(Ch(b, i))

StrLeq(a, b) == StrLeqFrom(a, b, 1)

\* The first element of the sorted vector of the strings of a non-empty set.
FirstSorted(strs) == CHOOSE x \in strs : \A y \in strs : StrLeq(x, y)

(***************************************************************************)
(* Paths and the path grammar.                                             *)
(***************************************************************************)
Contains(seq, x) == \E i \in 1..Len(seq) : seq[i] = x

\* Path::join with a single normal component.
Join(path, name) == Append(path, name)

\* Path::parent of a non-empty path.
Parent(path) == SubSeq(path, 1, Len(path) - 1)

\* Path::file_name as a string, "" when there is none.
FileName(path) == IF path = << >> THEN "" ELSE path[Len(path)]

\* PathNames::next over the components of a path: the names of the normal
\* components; the root and the "." and ".." components are passed over.
Normal(name) == [kind |-> "Normal", name |-> name]
RootDir == [kind |-> "RootDir", name |-> "/"]
ParentDir == [kind |-> "ParentDir", name |-> ".."]
RECURSIVE PathNames(_)
PathNames(components) ==
    IF components = << >> THEN << >>
    ELSE IF Head(components).kind = "Normal"
    THEN << Head(components).name >> \o PathNames(Tail(components))
    ELSE PathNames(Tail(components))

\* The position of the first component that is @flatten.
\* (Variant: the position of the last one.)
FlattenPosLast(path) ==
    CHOOSE i \in 1..Len(path) :
        path[i] = "@flatten" /\ \A j \in (i + 1)..Len(path) : path[j] # "@flatten"
FlattenPos(path) ==
    CHOOSE i \in 1..Len(path) :
        path[i] = "@flatten" /\ \A j \in 1..(i - 1) : path[j] # "@flatten"

Flattened(filter_path_names, flat_path_names) ==
    [kind |-> "Flattened",
     filter |-> filter_path_names,
     flat |-> flat_path_names,
     query |-> filter_path_names \o flat_path_names]

SplitAtFlatten(path, flatten_pos) ==
    Flattened(SubSeq(path, 1, flatten_pos - 1), SubSeq(path, flatten_pos + 1, Len(path)))

\* parse_path
ParsePath(path) ==
    IF Contains(path, "@flatten") THEN SplitAtFlatten(path, FlattenPos(path))
    ELSE [kind |-> "Normal", names |-> path]

\* The point with this id, if any (points.find(id).first()).
FindPoint(possible_id) ==
    IF IsSome(possible_id) /\ \E p \in points : p.id = Unwrap(possible_id)
    THEN Some(CHOOSE p \in points : p.id = Unwrap(possible_id))
    ELSE None

LastPiece(pieces) == pieces[Len(pieces)]

\* Ffs::lookup_point_by_name: the point whose id is the integer after the
\* last '.' of the last component.
\* (Variant: the whole last component is parsed.)
LookupPointByWholeName(path) ==
    IF path = << >> THEN None
    ELSE FindPoint(ParseInt(path[Len(path)]))
LookupPointByName(path) ==
    IF path = << >> THEN None
    ELSE FindPoint(ParseInt(LastPiece(Split(path[Len(path)], "."))))

(***************************************************************************)
(* The identity table.  T is the part of the mount that new_ino and the    *)
(* resolver write: [next_ino, path_to_ino, ino_to_path, ino_to_point].     *)
(***************************************************************************)
Put(f, k, v) == [x \in (DOMAIN f) \cup {k} |-> IF x = k THEN v ELSE f[x]]
Remove(f, k) == [x \in (DOMAIN f) \ {k} |-> f[x]]

Tables == [next_ino |-> next_ino, path_to_ino |-> path_to_ino,
           ino_to_path |-> ino_to_path, ino_to_point |-> ino_to_point]

\* Ffs::new_ino on tables T: the inode of path, and the tables after.
\* (Variants: one that allocates always, one that omits ino_to_path.)
NewInoAlways(T, path) ==
    [ino |-> T.next_ino,
     t |-> [T EXCEPT !.next_ino = T.next_ino + 1,
                     !.path_to_ino = Put(T.path_to_ino, path, T.next_ino),
                     !.ino_to_path = Put(T.ino_to_path, T.next_ino, path)]]
NewInoOneWay(T, path) ==
    IF path \in DOMAIN T.path_to_ino
    THEN [ino |-> T.path_to_ino[path], t |-> T]
    ELSE [ino |-> T.next_ino,
          t |-> [T EXCEPT !.next_ino = T.next_ino + 1,
                          !.path_to_ino = Put(T.path_to_ino, path, T.next_ino)]]
NewIno(T, path) ==
    IF path \in DOMAIN T.path_to_ino
    THEN [ino |-> T.path_to_ino[path], t |-> T]
    ELSE [ino |-> T.next_ino,
          t |-> [T EXCEPT !.next_ino = T.next_ino + 1,
                          !.path_to_ino = Put(T.path_to_ino, path, T.next_ino),
                          !.ino_to_path = Put(T.ino_to_path, T.next_ino, path)]]

\* ino_to_point.insert(r.ino, point) after r = new_ino(..).
Remember(r, point) ==
    [ino |-> r.ino,
     t |-> [r.t EXCEPT !.ino_to_point = Put(r.t.ino_to_point, r.ino, point)]]

NewPointIno(T, path, point) == Remember(NewIno(T, path), point)

\* Ffs::read_ino
ReadIno(ino) == IF ino \in DOMAIN ino_to_path THEN Some(ino_to_path[ino]) ELSE None

\* Ffs::read_fh
ReadFh(fh, maybe_ino) ==
    IF fh \in DOMAIN fh_to_path THEN Some(fh_to_path[fh])
    ELSE IF IsSome(maybe_ino) THEN ReadIno(Unwrap(maybe_ino))
    ELSE None

(***************************************************************************)
(* Attributes.  Only ino, kind, size and blocks vary.                      *)
(***************************************************************************)
BasicDirectory(ino) == [ino |-> ino, kind |-> "Directory", size |-> 0, blocks |-> 0]
BasicLink(ino) == [ino |-> ino, kind |-> "Symlink", size |-> 0, blocks |-> 0]
BasicFile(ino, size, blocks) ==
    [ino |-> ino, kind |-> "RegularFile", size |-> size, blocks |-> blocks]

\* What internal_lookup returns, with the tables after it.
Err(T) == [ok |-> FALSE, attr |-> BasicDirectory(0), t |-> T]
DirOf(r) == [ok |-> TRUE, attr |-> BasicDirectory(r.ino), t |-> r.t]
LinkOf(r) == [ok |-> TRUE, attr |-> BasicLink(r.ino), t |-> r.t]
FileOf(r, size, blocks) == [ok |-> TRUE, attr |-> BasicFile(r.ino, size, blocks), t |-> r.t]
PointOf(r, point) == IF point.dir THEN DirOf(r) ELSE LinkOf(r)

\* The display strings of the tags of point that are not in query_names.
FullTags(point, query_names) ==
    {FormatTag(t) : t \in Range(GetTagsForPoint(point))} \ Range(query_names)

\* The fold of internal_lookup that sizes @flat-info.
RECURSIVE SumLenPlusOne(_)
SumLenPlusOne(names) ==
    IF names = << >> THEN 0 ELSE Len(Head(names)) + 1 + SumLenPlusOne(Tail(names))

\* usize::saturating_sub(n, 1)
SaturatingSubOne(n) == IF n = 0 THEN 0 ELSE n - 1

\* (Variant: the separator after the last component is counted.)
FlatInfoSizeWhole(filter_path_names) == SumLenPlusOne(filter_path_names)
FlatInfoSize(filter_path_names) == SaturatingSubOne(SumLenPlusOne(filter_path_names))

(***************************************************************************)
(* Ffs::internal_lookup: the attribute of path, and the tables after.      *)
(***************************************************************************)
\* The first of the sorted remaining tags of a point is flat_name.
FirstTagIs(full_tags, flat_name) ==
    full_tags # {} /\ FirstSorted(full_tags) = flat_name

\* Some point matching parent_query_names has flat_name as the first of
\* its sorted remaining tags (the loop that ends the Flattened arm).
IsFlatTagDir(parent_query_names, flat_name) ==
    \E point \in Range(GetPointsByParts(parent_query_names)) :
        FirstTagIs(FullTags(point, parent_query_names), flat_name)

\* The Flattened arm when the path names a point.
\* (Variant: the point is remembered for the inode of the path itself.)
LookupFlattenedPointAtPath(T, path, point) ==
    PointOf(NewPointIno(T, path, point), point)
LookupFlattenedPoint(T, path, point) ==
    PointOf(NewPointIno(T, Join(path, PointFullName(point)), point), point)

\* The @dir arm: the point remembered for the parent inode.
LookupDirMarker(T, path, point) ==
    LinkOf(NewPointIno(T, Join(path, PointFullName(point)), point))

\* The parent inode of the @dir arm: the one the kernel gave, else the one
\* bound to the parent path, else none.
ParentIno(T, path, maybe_parent_ino) ==
    IF IsSome(maybe_parent_ino) THEN maybe_parent_ino
    ELSE IF Parent(path) \in DOMAIN T.path_to_ino THEN Some(T.path_to_ino[Parent(path)])
    ELSE None

\* The Flattened arm below @flatten for a path that names no point and is
\* not @flat-info; parent_ino is used when the last component is @dir.
LookupFlattenedInner(T, path, parent_query_names, flat_name, parent_ino) ==
    IF flat_name = "@dir" /\ ~IsSome(parent_ino) THEN Err(T)
    ELSE IF flat_name = "@dir" /\ Unwrap(parent_ino) \in DOMAIN T.ino_to_point
    THEN LookupDirMarker(T, path, T.ino_to_point[Unwrap(parent_ino)])
    ELSE IF IsFlatTagDir(parent_query_names, flat_name) THEN DirOf(NewIno(T, path))
    ELSE Err(T)

LookupFlattened(T, path, maybe_parent_ino, p, found) ==
    IF IsSome(found) THEN LookupFlattenedPoint(T, path, Unwrap(found))
    ELSE IF p.flat = << >> THEN DirOf(NewIno(T, path))
    ELSE IF p.flat = << "@flat-info" >>
    THEN FileOf(NewIno(T, path), FlatInfoSize(p.filter), 1)
    ELSE LookupFlattenedInner(T, path,
                              p.filter \o SubSeq(p.flat, 1, Len(p.flat) - 1),
                              p.flat[Len(p.flat)],
                              ParentIno(T, path, maybe_parent_ino))

\* Some tag of the points matching path_names displays as name.
IsTagDir(path_names, name) ==
    \E t \in Range(GetTagsForPoints(GetPointsByParts(path_names))) : FormatTag(t) = name

\* The Normal arm for a path that names a point.
LookupNormalPoint(T, path, point) == LinkOf(NewIno(T, path))

LookupNormalNamed(T, path, p, found) ==
    IF IsSome(found) THEN LookupNormalPoint(T, path, Unwrap(found))
    ELSE IF IsTagDir(p.names, FileName(path)) THEN DirOf(NewIno(T, path))
    ELSE Err(T)

LookupNormal(T, path, p) ==
    IF FileName(path) = "@flatten" \/ Contains(extra_dirs, path) \/ Len(p.names) = 0
    THEN DirOf(NewIno(T, path))
    ELSE LookupNormalNamed(T, path, p, LookupPointByName(path))

LookupParsed(T, path, maybe_parent_ino, p) ==
    IF p.kind = "Flattened"
    THEN LookupFlattened(T, path, maybe_parent_ino, p, LookupPointByName(p.query))
    ELSE LookupNormal(T, path, p)

InternalLookup(T, path, maybe_parent_ino) ==
    LookupParsed(T, path, maybe_parent_ino, ParsePath(path))

(***************************************************************************)
(* Ffs::readdir, the computation of a list.  An item is an entry before    *)
(* its inode is assigned: the path new_ino is called with, the file type,  *)
(* the entry name, and the point ino_to_point receives (if any).           *)
(***************************************************************************)
Item(path, kind, name, point) ==
    [path |-> path, kind |-> kind, name |-> name, point |-> point]

PointKind(point) == IF point.dir THEN "Directory" ELSE "Symlink"

\* The loop over the points of a flattened directory; ps are the points
\* still to visit, added_tags the tag directories already pushed.
RECURSIVE FlatItems(_, _, _, _)
RECURSIVE FlatItemsOfTagRepeated(_, _, _, _, _)
RECURSIVE FlatItemsOfTag(_, _, _, _, _)
RECURSIVE FlatItemsOfPoint(_, _, _, _, _)
\* (Variant: a first tag is pushed for every point that has it.)
FlatItemsOfTagRepeated(path, query_names, ps, added_tags, first_tag) ==
    << Item(Join(path, first_tag), "Directory", first_tag, None) >>
    \o FlatItems(path, query_names, Tail(ps), added_tags \cup {first_tag})
FlatItemsOfTag(path, query_names, ps, added_tags, first_tag) ==
    IF first_tag \in added_tags
    THEN FlatItems(path, query_names, Tail(ps), added_tags)
    ELSE << Item(Join(path, first_tag), "Directory", first_tag, None) >>
         \o FlatItems(path, query_names, Tail(ps), added_tags \cup {first_tag})
FlatItemsOfPoint(path, query_names, ps, added_tags, full_tags) ==
    IF full_tags # {}
    THEN FlatItemsOfTag(path, query_names, ps, added_tags, FirstSorted(full_tags))
    ELSE IF Head(ps).path = None
    THEN FlatItems(path, query_names, Tail(ps), added_tags)
    ELSE << Item(Join(path, PointFullName(Head(ps))), PointKind(Head(ps)),
                 PointFullName(Head(ps)), Some(Head(ps))) >>
         \o FlatItems(path, query_names, Tail(ps), added_tags)
FlatItems(path, query_names, ps, added_tags) ==
    IF ps = << >> THEN << >>
    ELSE FlatItemsOfPoint(path, query_names, ps, added_tags,
                          FullTags(Head(ps), query_names))

FlatInfoItems(path, p) ==
    IF p.flat = << >>
    THEN << Item(Join(path, "@flat-info"), "RegularFile", "@flat-info", None) >>
    ELSE << >>

\* The Flattened arm: enotdir tells that the reply is ENOTDIR, items are
\* the entries pushed (before the error, or in all).
\* (Variant: a point that is no directory is listed like one that is.)
FlattenedItemsAnyPoint(path, p, found) ==
    IF IsSome(found)
    THEN [enotdir |-> FALSE,
          items |-> FlatInfoItems(path, p)
                    \o << Item(Join(path, "@dir"), "RegularFile", "@dir", None) >>]
    ELSE [enotdir |-> FALSE,
          items |-> FlatInfoItems(path, p)
                    \o FlatItems(path, p.query, GetPointsByParts(p.query), {})]
FlattenedItems(path, p, found) ==
    IF IsSome(found) /\ ~Unwrap(found).dir
    THEN [enotdir |-> TRUE, items |-> FlatInfoItems(path, p)]
    ELSE IF IsSome(found)
    THEN [enotdir |-> FALSE,
          items |-> FlatInfoItems(path, p)
                    \o << Item(Join(path, "@dir"), "RegularFile", "@dir", None) >>]
    ELSE [enotdir |-> FALSE,
          items |-> FlatInfoItems(path, p)
                    \o FlatItems(path, p.query, GetPointsByParts(p.query), {})]

IsChildOf(extra_dir, path_names) ==
    extra_dir # << >> /\ Parent(extra_dir) = path_names

\* The extra directories that are children of path_names.
ExtraItemsOf(children) ==
    [i \in 1..Len(children) |->
        Item(children[i], "Directory", FileName(children[i]), None)]
ExtraItems(path_names) ==
    ExtraItemsOf(SelectSeq(extra_dirs, LAMBDA d : IsChildOf(d, path_names)))

\* (Variant: every point is listed.)
AnyPoint(point) == TRUE
HasPath(point) == point.path # None

PointItems(path, linked) ==
    [i \in 1..Len(linked) |->
        Item(Join(path, PointFullName(linked[i])), "Symlink",
             PointFullName(linked[i]), Some(linked[i]))]

\* The inode path of a tag entry of a normal directory.
TagEntryPath(path, tag) == Join(path, tag.name)

TagItems(path, shown) ==
    [i \in 1..Len(shown) |->
        Item(TagEntryPath(path, shown[i]), "Directory", FormatTag(shown[i]), None)]

\* (Variant: the tags that are in the path are listed again.)
NormalItemsOfAllTags(path, path_names, ps) ==
    << Item(Join(path, "@flatten"), "Directory", "@flatten", None) >>
    \o ExtraItems(path_names)
    \o PointItems(path, SelectSeq(ps, HasPath))
    \o TagItems(path, GetTagsForPoints(ps))
NormalItemsOf(path, path_names, ps) ==
    << Item(Join(path, "@flatten"), "Directory", "@flatten", None) >>
    \o ExtraItems(path_names)
    \o PointItems(path, SelectSeq(ps, HasPath))
    \o TagItems(path, SelectSeq(GetTagsForPoints(ps),
                                LAMBDA t : ~Contains(path_names, FormatTag(t))))

\* The Normal arm.
NormalItems(path, p) ==
    [enotdir |-> FALSE, items |-> NormalItemsOf(path, p.names, GetPointsByParts(p.names))]

ListParsed(path, p) ==
    IF p.kind = "Flattened"
    THEN FlattenedItems(path, p, LookupPointByName(p.query))
    ELSE NormalItems(path, p)

\* What readdir lists for path when it computes.
ReaddirItems(path) == ListParsed(path, ParsePath(path))

Entry(r, item) == [ino |-> r.ino, kind |-> item.kind, name |-> item.name]

ItemIno(T, item) ==
    IF IsSome(item.point) THEN NewPointIno(T, item.path, Unwrap(item.point))
    ELSE NewIno(T, item.path)

\* The new_ino calls of the items in their order, from tables T on.
RECURSIVE AssignInos(_, _, _)
AssignInosNext(items, entries, r) ==
    AssignInos(r.t, Tail(items), Append(entries, Entry(r, Head(items))))
AssignInos(T, items, entries) ==
    IF items = << >> THEN [t |-> T, entries |-> entries]
    ELSE AssignInosNext(items, entries, ItemIno(T, Head(items)))

DotEntries == << [ino |-> 1, kind |-> "Directory", name |-> "."],
                 [ino |-> 1, kind |-> "Directory", name |-> ".."] >>

\* reply.add for the entries from position offset on.
ReplyEntries(entries, offset) ==
    IF offset >= Len(entries) THEN << >>
    ELSE [k \in 1..(Len(entries) - offset) |->
             [ino |-> entries[offset + k].ino, offset |-> offset + k,
              kind |-> entries[offset + k].kind, name |-> entries[offset + k].name]]

(***************************************************************************)
(* The upcalls of impl Filesystem for Ffs.  reply records the upcall that  *)
(* is being answered: its arguments, the path it resolved, and the answer. *)
(***************************************************************************)
NoReply ==
    [op |-> "none", ino |-> 0, name |-> "", offset |-> 0, fh |-> 0,
     path |-> << >>, err |-> "", attr |-> BasicDirectory(0),
     entries |-> << >>, data |-> "", computed |-> FALSE]

\* The kernel has the answer of the last upcall and may send the next.
Idle == reply.op = "none"

\* Tables T keep the identifiers handed out within the bound.
Fits(T) == (T.next_ino - 2) + (next_fh - 1) <= MaxIds

SetTables(T) ==
    /\ next_ino' = T.next_ino
    /\ path_to_ino' = T.path_to_ino
    /\ ino_to_path' = T.ino_to_path
    /\ ino_to_point' = T.ino_to_point

\* An upcall that fails before it writes anything.
Fail(op, ino, name, fh, err) ==
    /\ reply' = [NoReply EXCEPT !.op = op, !.ino = ino, !.name = name,
                                !.fh = fh, !.err = err]
    /\ UNCHANGED <<index, mount>>

\* reply.attr / reply.entry / reply.error(ENOENT) on a result of
\* internal_lookup.
Resolve(op, ino, name, path, res) ==
    /\ Fits(res.t)
    /\ SetTables(res.t)
    /\ reply' = [NoReply EXCEPT !.op = op, !.ino = ino, !.name = name,
                                !.path = path,
                                !.err = IF res.ok THEN "" ELSE "ENOENT",
                                !.attr = res.attr]
    /\ UNCHANGED <<index, next_fh, fh_to_path, extra_dirs, dir_entries>>

GetattrPath(ino) == IF ino = 1 THEN Some(<< >>) ELSE ReadIno(ino)

GetattrAt(ino, path) ==
    Resolve("getattr", ino, "", path, InternalLookup(Tables, path, None))

Getattr(ino) ==
    IF IsSome(GetattrPath(ino)) THEN GetattrAt(ino, Unwrap(GetattrPath(ino)))
    ELSE Fail("getattr", ino, "", 0, "ENOENT")

\* The path of name under the inode parent (lookup and mkdir).
ChildPath(parent, name) ==
    IF parent \in DOMAIN ino_to_path THEN Join(ino_to_path[parent], name)
    ELSE << name >>

LookupAt(parent_ino, name, path) ==
    Resolve("lookup", parent_ino, name, path,
            InternalLookup(Tables, path, Some(parent_ino)))

Lookup(parent_ino, name) == LookupAt(parent_ino, name, ChildPath(parent_ino, name))

\* readdir when dir_entries has a list for ino.
\* (Variant: the list is never removed.)
ReaddirCachedKeep(ino, offset, entries) ==
    /\ reply' = [NoReply EXCEPT !.op = "readdir", !.ino = ino, !.offset = offset,
                                !.entries = ReplyEntries(entries, offset)]
    /\ UNCHANGED <<index, mount>>
ReaddirCached(ino, offset, entries) ==
    /\ reply' = [NoReply EXCEPT !.op = "readdir", !.ino = ino, !.offset = offset,
                                !.entries = ReplyEntries(entries, offset)]
    /\ dir_entries' = IF offset = Len(entries) THEN Remove(dir_entries, ino)
                      ELSE dir_entries
    /\ UNCHANGED <<index, next_ino, next_fh, path_to_ino, ino_to_path,
                   ino_to_point, fh_to_path, extra_dirs>>

\* readdir when it computed the list: a are the entries with their inodes
\* and the tables after.
ReaddirAssigned(ino, offset, path, enotdir, a) ==
    /\ Fits(a.t)
    /\ SetTables(a.t)
    /\ reply' = IF enotdir
                THEN [NoReply EXCEPT !.op = "readdir", !.ino = ino,
                                     !.offset = offset, !.path = path,
                                     !.err = "ENOTDIR", !.computed = TRUE]
                ELSE [NoReply EXCEPT !.op = "readdir", !.ino = ino,
                                     !.offset = offset, !.path = path,
                                     !.entries = ReplyEntries(a.entries, offset),
                                     !.computed = TRUE]
    /\ dir_entries' = IF ~enotdir /\ offset = 0 THEN Put(dir_entries, ino, a.entries)
                      ELSE dir_entries
    /\ UNCHANGED <<index, next_fh, fh_to_path, extra_dirs>>

ReaddirListed(ino, offset, path, listed) ==
    ReaddirAssigned(ino, offset, path, listed.enotdir,
                    AssignInos(Tables, listed.items, DotEntries))

ReaddirComputed(ino, offset, path) ==
    ReaddirListed(ino, offset, path, ReaddirItems(path))

\* read_ino(ino).unwrap_or("")
ReaddirPath(ino) == IF ino \in DOMAIN ino_to_path THEN ino_to_path[ino] ELSE << >>

Readdir(ino, offset) ==
    IF ino \in DOMAIN dir_entries THEN ReaddirCached(ino, offset, dir_entries[ino])
    ELSE ReaddirComputed(ino, offset, ReaddirPath(ino))

Readlink(ino) ==
    IF ino \in DOMAIN ino_to_point /\ IsSome(ino_to_point[ino].path)
    THEN /\ reply' = [NoReply EXCEPT !.op = "readlink", !.ino = ino,
                                     !.data = Unwrap(ino_to_point[ino].path)]
         /\ UNCHANGED <<index, mount>>
    ELSE Fail("readlink", ino, "", 0, "ENOENT")

MkdirAt(parent, name, path, r) ==
    /\ Len(extra_dirs) < MaxExtra
    /\ Fits(r.t)
    /\ SetTables(r.t)
    /\ extra_dirs' = Append(extra_dirs, path)
    /\ reply' = [NoReply EXCEPT !.op = "mkdir", !.ino = parent, !.name = name,
                                !.path = path, !.attr = BasicDirectory(r.ino)]
    /\ UNCHANGED <<index, next_fh, fh_to_path, dir_entries>>

MkdirPath(parent, name, path) == MkdirAt(parent, name, path, NewIno(Tables, path))

Mkdir(parent, name) == MkdirPath(parent, name, ChildPath(parent, name))

\* new_fh inside open.
\* (Variant: a path that has a handle gets that handle again.)
NewFhPerPath(ino, path) ==
    IF \E fh \in DOMAIN fh_to_path : fh_to_path[fh] = path
    THEN /\ reply' = [NoReply EXCEPT
                         !.op = "open", !.ino = ino, !.path = path,
                         !.fh = CHOOSE fh \in DOMAIN fh_to_path : fh_to_path[fh] = path]
         /\ UNCHANGED <<index, mount>>
    ELSE /\ (next_ino - 2) + (next_fh - 1) < MaxIds
         /\ next_fh' = next_fh + 1
         /\ fh_to_path' = Put(fh_to_path, next_fh, path)
         /\ reply' = [NoReply EXCEPT !.op = "open", !.ino = ino, !.fh = next_fh,
                                     !.path = path]
         /\ UNCHANGED <<index, next_ino, path_to_ino, ino_to_path, ino_to_point,
                        extra_dirs, dir_entries>>
NewFh(ino, path) ==
    /\ (next_ino - 2) + (next_fh - 1) < MaxIds
    /\ next_fh' = next_fh + 1
    /\ fh_to_path' = Put(fh_to_path, next_fh, path)
    /\ reply' = [NoReply EXCEPT !.op = "open", !.ino = ino, !.fh = next_fh,
                                !.path = path]
    /\ UNCHANGED <<index, next_ino, path_to_ino, ino_to_path, ino_to_point,
                   extra_dirs, dir_entries>>

Open(ino) ==
    IF ino \in DOMAIN ino_to_path THEN NewFh(ino, ino_to_path[ino])
    ELSE Fail("open", ino, "", 0, "ENOENT")

\* (Variant: flush forgets the file handle.)
FlushForget(ino, fh) ==
    /\ reply' = [NoReply EXCEPT !.op = "flush", !.ino = ino, !.fh = fh]
    /\ fh_to_path' = Remove(fh_to_path, fh)
    /\ UNCHANGED <<index, next_ino, next_fh, path_to_ino, ino_to_path,
                   ino_to_point, extra_dirs, dir_entries>>
Flush(ino, fh) ==
    /\ reply' = [NoReply EXCEPT !.op = "flush", !.ino = ino, !.fh = fh]
    /\ UNCHANGED <<index, mount>>

\* [str]::join
RECURSIVE JoinStr(_, _)
JoinStr(strs, sep) ==
    IF strs = << >> THEN ""
    ELSE IF Len(strs) = 1 THEN strs[1]
    ELSE strs[1] \o sep \o JoinStr(Tail(strs), sep)

\* The slice pattern [filter_str @ .., "@flatten", "@flat-info"].
IsFlatInfoPath(path_names) ==
    /\ Len(path_names) >= 2
    /\ path_names[Len(path_names) - 1] = "@flatten"
    /\ path_names[Len(path_names)] = "@flat-info"

\* filter_str.join("/") for a path that matches the pattern.
FlatInfoData(path_names) == JoinStr(SubSeq(path_names, 1, Len(path_names) - 2), "/")

\* (Variant: every resolved path is readable.)
ReadAtAnyPath(ino, fh, maybe_path) ==
    IF IsSome(maybe_path)
    THEN /\ reply' = [NoReply EXCEPT
                         !.op = "read", !.ino = ino, !.fh = fh,
                         !.path = Unwrap(maybe_path),
                         !.data = FlatInfoData(Unwrap(maybe_path))]
         /\ UNCHANGED <<index, mount>>
    ELSE Fail("read", ino, "", fh, "ENOENT")
ReadAt(ino, fh, maybe_path) ==
    IF IsSome(maybe_path) /\ IsFlatInfoPath(Unwrap(maybe_path))
    THEN /\ reply' = [NoReply EXCEPT
                         !.op = "read", !.ino = ino, !.fh = fh,
                         !.path = Unwrap(maybe_path),
                         !.data = FlatInfoData(Unwrap(maybe_path))]
         /\ UNCHANGED <<index, mount>>
    ELSE Fail("read", ino, "", fh, "ENOENT")

Read(ino, fh) == ReadAt(ino, fh, ReadFh(fh, Some(ino)))

\* The reply reaches the kernel; the session loop takes the next request.
Return ==
    /\ reply.op # "none"
    /\ reply' = NoReply
    /\ UNCHANGED <<index, mount>>

(***************************************************************************)
(* Index contents.                                                         *)
(***************************************************************************)
Point(id, name, path, dir) ==
    [id |-> id, name |-> name, path |-> path, hash |-> "h", dir |-> dir]
Tag(id, name, value, sort_value) ==
    [id |-> id, name |-> name, value |-> value, sort_value |-> sort_value]
JoinRow(id, tag_id, point_id) == [id |-> id, tag_id |-> tag_id, point_id |-> point_id]

PointA == Point(7, "a.txt", Some("/s/a.txt"), FALSE)
PointB == Point(8, "b.txt", Some("/s/b.txt"), FALSE)
PointGone == Point(9, "c.txt", None, FALSE)

TagKind == Tag(1, "kind", Some("text"), None)
TagX == Tag(3, "x", None, None)
\* year = 2020 as the CLI stores it from [name, value, sort_value], from
\* [name, value], and with a sort_value that is not the value.
TagYear2020 == Tag(2, "year", Some("2020"), Some(2020))
TagYearUnsorted == Tag(2, "year", Some("2020"), None)
TagYearOff == Tag(2, "year", Some("2020"), Some(2021))

\* The indexes a mount is started on.
MountIndexes ==
    {[points |-> {PointA}, tags |-> {TagKind}, joins |-> {}],
     [points |-> {PointA}, tags |-> {TagKind}, joins |-> {JoinRow(1, 1, 7)}]}

\* The indexes the queries are run on: three points, three tags (one of
\* them a variant of year = 2020) and at most MaxJoins joins.
QueryPoints == {PointA, PointB, PointGone}
QueryTagSets == {{TagKind, TagX, y} : y \in {TagYear2020, TagYearUnsorted, TagYearOff}}
QueryJoinRows == {JoinRow(10 * t + p, t, p) : t \in 1..3, p \in 7..9}
QueryJoinSets == {js \in SUBSET QueryJoinRows : Cardinality(js) <= MaxJoins}

\* The index of the worked example: P1 = a.txt (7) tagged kind = text and
\* year = 2020, P2 = b.txt (11) tagged kind = text and year = 2021.
PointB11 == Point(11, "b.txt", Some("/s/b.txt"), FALSE)
TagYear2021 == Tag(4, "year", Some("2021"), Some(2021))
ExampleIndex ==
    [points |-> {PointA, PointB11},
     tags |-> {TagKind, TagYear2020, TagYear2021},
     joins |-> {JoinRow(1, 1, 7), JoinRow(2, 2, 7), JoinRow(3, 1, 11), JoinRow(4, 4, 11)}]

\* An index with a point that is a directory, under no tag, next to a.txt
\* under kind = text.
PointDir == Point(5, "d", Some("/s/d"), TRUE)
DirIndex ==
    [points |-> {PointA, PointDir}, tags |-> {TagKind}, joins |-> {JoinRow(1, 1, 7)}]

QueryIndexes ==
    {[points |-> QueryPoints, tags |-> ts, joins |-> js] :
        ts \in QueryTagSets, js \in QueryJoinSets}
    \cup {ExampleIndex, DirIndex}

\* Inputs of the upcalls.
\* The inodes the kernel knows: the root and those handed out.
Inos == {1} \cup DOMAIN ino_to_path
Fhs == DOMAIN fh_to_path \cup {next_fh}
Offsets == 0..MaxOffset
LookupNames == {"@flatten", "a.txt.7", "kind = text", "d"}
MkdirNames == {"d", "kind"}

\* Inputs of the queries.
Disjuncts == {"kind = text", "year = 2020", "x", "kind = text or"}
QueryNames == {"kind", "year"}
QueryValues == {"text", "2020", "2021"}
DirNames == {"kind = text", "year = 2020", "x"}
RECURSIVE PathsOfLen(_)
PathsOfLen(n) ==
    IF n = 0 THEN {<< >>}
    ELSE {Append(path, name) : path \in PathsOfLen(n - 1), name \in DirNames}
DirPaths == UNION {PathsOfLen(n) : n \in 0..MaxParts}
ComparePaths == {<< "year > 2020" >>, << "year < 2020" >>}
\* Flattened paths, some of them naming a point.
FlatDirPaths ==
    {<< "@flatten" >>, << "@flatten", "d.5" >>, << "d.5", "@flatten" >>,
     << "@flatten", "kind = text", "a.txt.7" >>, << "a.txt.7", "@flatten" >>,
     << "kind = text", "@flatten" >>, << "@flatten", "kind = text" >>,
     << "kind = text", "@flatten", "year = 2020" >>}
\* The @flatten directories among them.
FlattenDirs == {<< "@flatten" >>, << "kind = text", "@flatten" >>}
\* The directories that mkdir creates in the root.
MadePaths == {<< name >> : name \in MkdirNames}
\* The directories mkdir has created before the listings are taken.
QueryExtraDirs ==
    {<< >>, << << "d" >> >>,
     << << "kind = text", "e" >>, << "d" >>, << "c" >>, << "kind" >> >>,
     << << "d" >>, << "x" >>, << "d" >> >>}
EntryNames == {"a.txt.7", "b.txt.8", "c.txt.9", "zzz.7", "a.txt", "a.txt.99", "7"}
EntryPaths == {<< name >> : name \in EntryNames}
              \cup {<< "kind = text", name >> : name \in EntryNames}

(***************************************************************************)
(* The mount: Ffs::new on an index, then upcalls one at a time.            *)
(***************************************************************************)
MountInit ==
    /\ next_ino = 2
    /\ next_fh = 1
    /\ path_to_ino = << >>
    /\ ino_to_path = << >>
    /\ ino_to_point = << >>
    /\ fh_to_path = << >>
    /\ extra_dirs = << >>
    /\ dir_entries = << >>
    /\ reply = NoReply

Init ==
    /\ \E ix \in MountIndexes :
          /\ points = ix.points
          /\ tags = ix.tags
          /\ joins = ix.joins
    /\ MountInit

Next ==
    \/ Return
    \/ \E ino \in Inos : Idle /\ Getattr(ino)
    \/ \E ino \in Inos, name \in LookupNames : Idle /\ Lookup(ino, name)
    \/ \E ino \in Inos, offset \in Offsets : Idle /\ Readdir(ino, offset)
    \/ \E ino \in Inos : Idle /\ Readlink(ino)
    \/ \E ino \in Inos, name \in MkdirNames : Idle /\ Mkdir(ino, name)
    \/ \E ino \in Inos : Idle /\ Open(ino)
    \/ \E ino \in Inos, fh \in Fhs : Idle /\ Flush(ino, fh)
    \/ \E ino \in Inos, fh \in Fhs : Idle /\ Read(ino, fh)

Spec == Init /\ [][Next]_vars

(***************************************************************************)
(* The queries and listings on their own: an index is drawn, and each step *)
(* runs the functions of utils.rs and the listing of readdir on an input   *)
(* and records what they returned.                                         *)
(***************************************************************************)
QueryInit ==
    /\ \E ix \in QueryIndexes :
          /\ points = ix.points
          /\ tags = ix.tags
          /\ joins = ix.joins
    /\ next_ino = 2
    /\ next_fh = 1
    /\ path_to_ino = << >>
    /\ ino_to_path = << >>
    /\ ino_to_point = << >>
    /\ fh_to_path = << >>
    /\ extra_dirs \in QueryExtraDirs
    /\ dir_entries = << >>
    /\ reply = NoReply

\* The names of the point entries among items.
PointEntries(items) ==
    {items[i].name : i \in {k \in 1..Len(items) : IsSome(items[k].point)}}

\* The tag directory entries among items.
TagDirs(items) ==
    {items[i] : i \in {k \in 1..Len(items) :
                          /\ items[k].point = None
                          /\ items[k].kind = "Directory"
                          /\ items[k].name # "@flatten"}}

\* The point entries reached from the flattened directory path through
\* the tag directories its listings offer.
RECURSIVE FlattenReach(_)
FlattenReachFrom(items) ==
    PointEntries(items) \cup UNION {FlattenReach(d.path) : d \in TagDirs(items)}
FlattenReach(path) == FlattenReachFrom(ReaddirItems(path).items)

\* get_points_by_parts on ["a or b"], ["a", "b"], ["a"], ["b"] and [].
PointsByParts(a, b) ==
    /\ reply' = [op |-> "points_by_parts", a |-> a, b |-> b,
                 either |-> Range(GetPointsByParts(<< a \o " or " \o b >>)),
                 both |-> Range(GetPointsByParts(<< a, b >>)),
                 left |-> Range(GetPointsByParts(<< a >>)),
                 right |-> Range(GetPointsByParts(<< b >>)),
                 all |-> Range(GetPointsByParts(<< >>))]
    /\ UNCHANGED <<index, mount>>

\* get_tags_by_parts on the single disjunct "<name> = <value>".
TagsByParts(name, value) ==
    /\ reply' = [op |-> "tags_by_parts", name |-> name, value |-> value,
                 found |-> Range(GetTagsByParts(<< name \o " = " \o value >>)[1])]
    /\ UNCHANGED <<index, mount>>

\* The listings of the normal directory path and of its entry name.
ListChildOf(path, name, items) ==
    /\ \E d \in TagDirs(items) : d.name = name
    /\ reply' = [op |-> "list_child", path |-> path, name |-> name,
                 parent |-> PointEntries(items),
                 child |-> PointEntries(ReaddirItems(Join(path, name)).items)]
    /\ UNCHANGED <<index, mount>>

ListChild(path, name) == ListChildOf(path, name, ReaddirItems(path).items)

\* The listing of the normal directory path and what is reached from its
\* @flatten directory.
ListFlatten(path) ==
    /\ reply' = [op |-> "list_flatten", path |-> path,
                 normal |-> PointEntries(ReaddirItems(path).items),
                 flat |-> FlattenReach(Join(path, "@flatten"))]
    /\ UNCHANGED <<index, mount>>

\* lookup_point_by_name on a path.
PointByName(path) ==
    /\ reply' = [op |-> "lookup_point_by_name", path |-> path,
                 found |-> LookupPointByName(path)]
    /\ UNCHANGED <<index, mount>>

\* internal_lookup and the payload of read on <filter>/@flatten/@flat-info.
FlatInfoAt(filter, path, res) ==
    /\ reply' = [op |-> "flat_info", filter |-> filter, ok |-> res.ok,
                 attr |-> res.attr, readable |-> IsFlatInfoPath(path),
                 data |-> FlatInfoData(path)]
    /\ UNCHANGED <<index, mount>>

FlatInfoOf(filter, path) == FlatInfoAt(filter, path, InternalLookup(Tables, path, None))

FlatInfo(filter) == FlatInfoOf(filter, filter \o << "@flatten", "@flat-info" >>)

\* What readdir(_, 0) replies when it computes the list of the normal
\* directory path.
ListNormalOf(path, a) ==
    /\ reply' = [op |-> "list_normal", path |-> path,
                 entries |-> ReplyEntries(a.entries, 0)]
    /\ UNCHANGED <<index, mount>>

ListNormal(path) ==
    ListNormalOf(path, AssignInos(Tables, ReaddirItems(path).items, DotEntries))

\* What readdir(_, 0) replies and what it stores in dir_entries when it
\* computes the list of the flattened directory path.
ListFlatDirAssigned(path, enotdir, a) ==
    /\ reply' = [op |-> "list_flat_dir", path |-> path,
                 err |-> IF enotdir THEN "ENOTDIR" ELSE "",
                 entries |-> IF enotdir THEN << >> ELSE ReplyEntries(a.entries, 0),
                 cache |-> IF enotdir THEN None ELSE Some(a.entries)]
    /\ UNCHANGED <<index, mount>>

ListFlatDirOf(path, listed) ==
    ListFlatDirAssigned(path, listed.enotdir,
                        AssignInos(Tables, listed.items, DotEntries))

ListFlatDir(path) == ListFlatDirOf(path, ReaddirItems(path))

\* lookup(parent, name) for the entries that readdir(parent, 0) just
\* computed for the directory path, parent being the inode that a lookup
\* bound to path (a tag directory or a @flatten directory).
LookedUp(entry, res) ==
    [name |-> entry.name, kind |-> entry.kind, ino |-> entry.ino,
     ok |-> res.ok, attr |-> res.attr]

ResolveListedWith(path, parent_ino, a) ==
    /\ reply' = [op |-> "resolve_listed", path |-> path,
                 entries |-> [j \in 1..(Len(a.entries) - 2) |->
                     LookedUp(a.entries[j + 2],
                              InternalLookup(a.t, Join(path, a.entries[j + 2].name),
                                             Some(parent_ino)))]]
    /\ UNCHANGED <<index, mount>>

ResolveListedFrom(path, parent, listed) ==
    ResolveListedWith(path, parent.ino, AssignInos(parent.t, listed.items, DotEntries))

ResolveListed(path) ==
    ResolveListedFrom(path,
                      IF path = << >> THEN [t |-> Tables, ino |-> 1]
                      ELSE NewIno(Tables, path),
                      ReaddirItems(path))

QueryNext ==
    \/ Return
    \/ \E path \in DirPaths \cup ComparePaths \cup MadePaths : Idle /\ ListNormal(path)
    \/ \E filter \in DirPaths : Idle /\ FlatInfo(filter)
    \/ \E path \in EntryPaths : Idle /\ PointByName(path)
    \/ \E a \in Disjuncts, b \in Disjuncts : Idle /\ PointsByParts(a, b)
    \/ \E name \in QueryNames, value \in QueryValues : Idle /\ TagsByParts(name, value)
    \/ \E path \in DirPaths, name \in DirNames : Idle /\ ListChild(path, name)
    \/ \E path \in DirPaths : Idle /\ ListFlatten(path)
    \/ \E path \in FlatDirPaths : Idle /\ ListFlatDir(path)
    \/ \E path \in DirPaths \cup FlattenDirs : Idle /\ ResolveListed(path)

QuerySpec == QueryInit /\ [][QueryNext]_vars

(***************************************************************************)
(* Properties of the identity table (Spec).                                *)
(***************************************************************************)
\* C1: in every reachable state of the mount path_to_ino and ino_to_path
\* are mutual inverses, and inode 1 is neither a key of ino_to_path nor a
\* value of path_to_ino.
C1_MutualInverses ==
    /\ \A p \in DOMAIN path_to_ino :
          /\ path_to_ino[p] \in DOMAIN ino_to_path
          /\ ino_to_path[path_to_ino[p]] = p
          /\ path_to_ino[p] # 1
    /\ \A i \in DOMAIN ino_to_path :
          /\ ino_to_path[i] \in DOMAIN path_to_ino
          /\ path_to_ino[ino_to_path[i]] = i
    /\ 1 \notin DOMAIN ino_to_path

\* Two paths are bound, one of them below the other.
C1_Witness ==
    \E p \in DOMAIN path_to_ino, q \in DOMAIN path_to_ino :
        /\ p # q
        /\ Len(q) = Len(p) + 1
        /\ SubSeq(q, 1, Len(p)) = p

\* The inode an answered lookup, getattr or mkdir carries.
AnsweredIno(r) == r.op \in {"lookup", "getattr", "mkdir"} /\ r.err = ""

\* C2: no step of the mount changes or removes a binding of path_to_ino or
\* of ino_to_path; next_ino advances by exactly the number of paths a step
\* newly binds; and when the path of the inode that a lookup, getattr or
\* mkdir answers with was bound before the step, the answer is the inode
\* it was bound to and next_ino does not advance.
C2_BindingsKept ==
    [][/\ \A p \in DOMAIN path_to_ino :
             p \in DOMAIN path_to_ino' /\ path_to_ino'[p] = path_to_ino[p]
       /\ \A i \in DOMAIN ino_to_path :
             i \in DOMAIN ino_to_path' /\ ino_to_path'[i] = ino_to_path[i]
       /\ next_ino' - next_ino =
             Cardinality((DOMAIN path_to_ino') \ (DOMAIN path_to_ino))
       /\ (Idle /\ AnsweredIno(reply')) =>
             /\ reply'.attr.ino \in DOMAIN ino_to_path'
             /\ ino_to_path'[reply'.attr.ino] \in DOMAIN path_to_ino =>
                   /\ path_to_ino[ino_to_path'[reply'.attr.ino]] = reply'.attr.ino
                   /\ next_ino' = next_ino
      ]_vars

\* A lookup was answered with an inode that is not the newest one: the
\* path was bound already, and another path has been bound since.
C2_Witness ==
    /\ reply.op = "lookup"
    /\ reply.err = ""
    /\ reply.path \in DOMAIN path_to_ino
    /\ path_to_ino[reply.path] = reply.attr.ino
    /\ reply.attr.ino + 1 < next_ino

(***************************************************************************)
(* Properties of the readdir cache (Spec).                                 *)
(***************************************************************************)
\* The step answers a readdir of inode i.
ReaddirStepOn(i) == Idle /\ reply'.op = "readdir" /\ reply'.ino = i

\* The entries of list from position k on, entry at position j carrying
\* offset j + 1 (positions counted from 0).
ListFrom(list, k, answered) ==
    /\ Len(answered) = Len(list) - k
    /\ \A j \in 1..Len(answered) :
          answered[j] = [ino |-> list[k + j].ino, offset |-> k + j,
                         kind |-> list[k + j].kind, name |-> list[k + j].name]

\* C3: while dir_entries holds a list for ino (stored by a readdir at
\* offset 0), a readdir(ino, k) with 0 <= k <= len answers exactly the
\* stored entries at positions [k, len), the entry at position i carrying
\* offset i + 1; the list is removed by the call with k = len and by no
\* other step; and a readdir(ino, 0) that finds no list computes one and
\* stores it.
C3_ReaddirCache ==
    [][/\ \A i \in DOMAIN dir_entries :
             IF ReaddirStepOn(i) /\ reply'.offset <= Len(dir_entries[i])
             THEN /\ reply'.err = ""
                  /\ ListFrom(dir_entries[i], reply'.offset, reply'.entries)
                  /\ IF reply'.offset = Len(dir_entries[i])
                     THEN i \notin DOMAIN dir_entries'
                     ELSE /\ i \in DOMAIN dir_entries'
                          /\ dir_entries'[i] = dir_entries[i]
             ELSE /\ i \in DOMAIN dir_entries'
                  /\ dir_entries'[i] = dir_entries[i]
       /\ \A i \in Inos \ DOMAIN dir_entries :
             (ReaddirStepOn(i) /\ reply'.offset = 0 /\ reply'.err = "") =>
                 /\ reply'.computed
                 /\ i \in DOMAIN dir_entries'
                 /\ ListFrom(dir_entries'[i], 0, reply'.entries)
       /\ \A i \in (DOMAIN dir_entries') \ (DOMAIN dir_entries) :
             ReaddirStepOn(i) /\ reply'.offset = 0
      ]_vars

\* A readdir at an offset inside the stored list was answered from it.
C3_Witness ==
    /\ reply.op = "readdir"
    /\ ~reply.computed
    /\ reply.ino \in DOMAIN dir_entries
    /\ reply.offset >= 1
    /\ Len(reply.entries) >= 2
    /\ ListFrom(dir_entries[reply.ino], reply.offset, reply.entries)

\* C4: a readdir at offset 0 of a normal directory lists every directory
\* that mkdir has created in it before the call.
C4_MkdirVisible ==
    (reply.op = "readdir" /\ reply.offset = 0 /\ reply.err = ""
     /\ ~Contains(ReaddirPath(reply.ino), "@flatten")) =>
        \A k \in 1..Len(extra_dirs) :
            IsChildOf(extra_dirs[k], ReaddirPath(reply.ino)) =>
                \E j \in 1..Len(reply.entries) :
                    reply.entries[j].name = FileName(extra_dirs[k])

(***************************************************************************)
(* Properties of lookup and getattr (Spec).                                *)
(***************************************************************************)
\* C5: the inode a lookup in a normal directory returns as the symlink of
\* a point with a backing path is registered in ino_to_point with that
\* point, so that readlink answers the bytes of its path.
C5_LookupThenReadlink ==
    \A p \in points :
        (/\ reply.op = "lookup"
         /\ reply.err = ""
         /\ reply.attr.kind = "Symlink"
         /\ reply.name = PointFullName(p)
         /\ ~Contains(reply.path, "@flatten")
         /\ IsSome(p.path)) =>
            /\ reply.attr.ino \in DOMAIN ino_to_point
            /\ ino_to_point[reply.attr.ino].path = p.path

\* C8: the attribute a lookup or getattr answers with carries the inode
\* that path_to_ino binds to the path the upcall resolved.
C8_AttrInoIsPathIno ==
    (reply.op \in {"lookup", "getattr"} /\ reply.err = "") =>
        /\ reply.path \in DOMAIN path_to_ino
        /\ path_to_ino[reply.path] = reply.attr.ino

(***************************************************************************)
(* Properties of the queries and listings (QuerySpec).                     *)
(***************************************************************************)
\* C6: the point entries of the listing of P/T are among the point entries
\* of the listing of P, for every normal directory P and every tag
\* directory T that the listing of P offers.
C6_MonotoneNarrowing ==
    reply.op = "list_child" => reply.child \subseteq reply.parent

\* A directory below the root that resolves, one of its tag directories,
\* and a listing there that is smaller but not empty.
C6_Witness ==
    /\ reply.op = "list_child"
    /\ reply.path # << >>
    /\ InternalLookup(Tables, reply.path, None).ok
    /\ reply.child # {}
    /\ reply.child # reply.parent

\* C7: the points listed in a normal directory are exactly the points
\* reached from its @flatten directory through the tag directories that
\* the flattened listings offer.
C7_FlattenCovers ==
    reply.op = "list_flatten" => reply.flat = reply.normal

\* The laws of C9 on one answer.
UnionLaw(r) == r.either = r.left \cup r.right
IntersectionLaw(r) == r.both = r.left \cap r.right
AllLaw(r) == r.all = points

\* C9 as stated: for all disjuncts a and b, points_by_parts(["a or b"]) is
\* the union and points_by_parts(["a", "b"]) the intersection of
\* points_by_parts(["a"]) and points_by_parts(["b"]), and
\* points_by_parts([]) is all points.
C9_Algebra ==
    reply.op = "points_by_parts" =>
        UnionLaw(reply) /\ IntersectionLaw(reply) /\ AllLaw(reply)

\* C9 amended: the intersection law and the law of the empty list hold for
\* all a and b; the union law holds whenever splitting "a or b" at " or "
\* yields a and b (it does not when a ends in " or").
C9_AlgebraSplit ==
    reply.op = "points_by_parts" =>
        /\ IntersectionLaw(reply)
        /\ AllLaw(reply)
        /\ Split(reply.a \o " or " \o reply.b, " or ") = << reply.a, reply.b >> =>
              UnionLaw(reply)

\* Two expressions that select different, overlapping sets of points.
C9_Witness ==
    /\ reply.op = "points_by_parts"
    /\ Split(reply.a \o " or " \o reply.b, " or ") = << reply.a, reply.b >>
    /\ reply.left # reply.right
    /\ reply.both # {}
    /\ reply.both # reply.either

\* C10: the disjunct "name = v" selects the tags named name whose
\* sort_value is v when v parses as an integer, and the tags named name
\* whose value is v when it does not.
C10_NumericOrString ==
    reply.op = "tags_by_parts" =>
        IF IsSome(ParseInt(reply.value))
        THEN reply.found = {t \in tags : /\ t.name = reply.name
                                         /\ t.sort_value = ParseInt(reply.value)}
        ELSE reply.found = {t \in tags : /\ t.name = reply.name
                                         /\ t.value = Some(reply.value)}

\* A numeric v that is the value of a tag of that name, which is not
\* selected because its sort_value is not v.
C10_Witness ==
    /\ reply.op = "tags_by_parts"
    /\ IsSome(ParseInt(reply.value))
    /\ \E t \in tags : /\ t.name = reply.name
                       /\ t.value = Some(reply.value)
                       /\ t \notin reply.found

(***************************************************************************)
(* Properties of names and of the @flat-info file.                         *)
(***************************************************************************)
\* The string s ends with the string suffix.
EndsWith(s, suffix) ==
    /\ Len(suffix) <= Len(s)
    /\ SubSeq(s, Len(s) - Len(suffix) + 1, Len(s)) = suffix

\* C11: lookup_point_by_name on a path whose last component is
\* "<p.name>.<p.id>" returns the point p (whether or not p has a backing
\* path); more generally it returns p whenever the last component is the
\* id of p or ends in "." and the id of p, whatever the name part is, and
\* it returns no point that the index does not hold.
C11_RoundTrip ==
    reply.op = "lookup_point_by_name" =>
        /\ \A p \in points :
              FileName(reply.path) = PointFullName(p) => reply.found = Some(p)
        /\ \A p \in points :
              (\/ FileName(reply.path) = IntToStr(p.id)
               \/ EndsWith(FileName(reply.path), "." \o IntToStr(p.id))) =>
                  reply.found = Some(p)
        /\ IsSome(reply.found) => Unwrap(reply.found) \in points

\* The rendered name of a point with a backing path, below a directory,
\* gave the point back.
C11_Witness ==
    /\ reply.op = "lookup_point_by_name"
    /\ Len(reply.path) = 2
    /\ IsSome(reply.found)
    /\ IsSome(Unwrap(reply.found).path)
    /\ FileName(reply.path) = PointFullName(Unwrap(reply.found))

\* The components of names with "/" between them, built from the left.
RECURSIVE SlashJoined(_, _, _)
SlashJoined(names, i, acc) ==
    IF i > Len(names) THEN acc
    ELSE SlashJoined(names, i + 1, IF i = 1 THEN names[1] ELSE acc \o "/" \o names[i])

\* C12: <filter>/@flatten/@flat-info resolves to a regular file, read on
\* it answers the filter components joined by "/" (the empty string for an
\* empty filter), and the size of the attribute is the length of that
\* payload.
C12_FlatInfo ==
    reply.op = "flat_info" =>
        /\ reply.ok
        /\ reply.attr.kind = "RegularFile"
        /\ reply.readable
        /\ reply.data = SlashJoined(reply.filter, 1, "")
        /\ reply.attr.size = Len(reply.data)

\* A filter of two components, whose payload holds one separator.
C12_Witness ==
    /\ reply.op = "flat_info"
    /\ Len(reply.filter) = 2
    /\ reply.ok
    /\ reply.attr.size = Len(reply.filter[1]) + 1 + Len(reply.filter[2])

(***************************************************************************)
(* Properties of the normal listing (QuerySpec).                           *)
(***************************************************************************)
\* The kind and name of the entries.
Shown(entries) ==
    [j \in 1..Len(entries) |-> << entries[j].kind, entries[j].name >>]

ShownDots == << << "Directory", "." >>, << "Directory", ".." >>,
                << "Directory", "@flatten" >> >>
ShownExtrasOf(children) ==
    [j \in 1..Len(children) |-> << "Directory", children[j][Len(children[j])] >>]
ShownExtras(C) ==
    ShownExtrasOf(SelectSeq(extra_dirs,
                            LAMBDA d : d # << >> /\ SubSeq(d, 1, Len(d) - 1) = C))
ShownPoints(linked) ==
    [j \in 1..Len(linked) |-> << "Symlink", PointFullName(linked[j]) >>]
ShownTags(C, found) ==
    [j \in 1..Len(found) |-> << "Directory", FormatTag(found[j]) >>]

\* The points of points_by_parts(C) that have a backing path.
Linked(C) == SelectSeq(GetPointsByParts(C), LAMBDA p : IsSome(p.path))

\* The tags of the points ps whose display string is no component of C.
OfferedTags(C, ps) ==
    SelectSeq(GetTagsForPoints(ps), LAMBDA t : \A i \in 1..Len(C) : C[i] # FormatTag(t))

\* The dot entries carry inode 1, and entry j carries offset j.
DotsAndOffsets(entries) ==
    /\ Len(entries) >= 3
    /\ entries[1].ino = 1
    /\ entries[2].ino = 1
    /\ \A j \in 1..Len(entries) : entries[j].offset = j

\* C13 as stated: the computed listing of the normal path C is ".", "..",
\* "@flatten", the extra directories below C, a symlink per point of
\* points_by_parts(C) with a backing path, and a directory per tag of
\* those listed points whose display string is no component of C.
C13_ListingOfListed ==
    reply.op = "list_normal" =>
        /\ DotsAndOffsets(reply.entries)
        /\ Shown(reply.entries) =
              ShownDots \o ShownExtras(reply.path)
              \o ShownPoints(Linked(reply.path))
              \o ShownTags(reply.path, OfferedTags(reply.path, Linked(reply.path)))

\* C13 amended: the same, with a directory per tag of all the points of
\* points_by_parts(C), those without a backing path included.
C13_ListingOfMatched ==
    reply.op = "list_normal" =>
        /\ DotsAndOffsets(reply.entries)
        /\ Shown(reply.entries) =
              ShownDots \o ShownExtras(reply.path)
              \o ShownPoints(Linked(reply.path))
              \o ShownTags(reply.path,
                           OfferedTags(reply.path, GetPointsByParts(reply.path)))

\* A listing below the root with an extra directory, a point and a tag.
C13_Witness ==
    /\ reply.op = "list_normal"
    /\ reply.path # << >>
    /\ ShownExtras(reply.path) # << >>
    /\ Linked(reply.path) # << >>
    /\ Linked(reply.path) # GetPointsByParts(reply.path)
    /\ OfferedTags(reply.path, GetPointsByParts(reply.path)) # << >>

\* The names of the entries.
Names(entries) == {entries[j].name : j \in 1..Len(entries)}

OnExample ==
    /\ points = ExampleIndex.points
    /\ tags = ExampleIndex.tags
    /\ joins = ExampleIndex.joins

\* C14 as stated: on the example index the listing of "/year > 2020" is
\* ".", "..", "@flatten", "b.txt.11", "kind = text", and the listing of
\* "/year < 2020" is ".", "..", "@flatten".
C14_ExampleListing ==
    (OnExample /\ reply.op = "list_normal") =>
        /\ reply.path = << "year > 2020" >> =>
              Names(reply.entries) = {".", "..", "@flatten", "b.txt.11", "kind = text"}
        /\ reply.path = << "year < 2020" >> =>
              Names(reply.entries) = {".", "..", "@flatten"}

\* C14 amended: the listing of "/year > 2020" also holds "year = 2021",
\* the other tag of b.txt, whose display string is no component of the
\* path.
C14_ExampleListingWithYear ==
    (OnExample /\ reply.op = "list_normal") =>
        /\ reply.path = << "year > 2020" >> =>
              Names(reply.entries) =
                  {".", "..", "@flatten", "b.txt.11", "kind = text", "year = 2021"}
        /\ reply.path = << "year < 2020" >> =>
              Names(reply.entries) = {".", "..", "@flatten"}

\* The listing of "/year > 2020" on the example index.
C14_Witness ==
    /\ OnExample
    /\ reply.op = "list_normal"
    /\ reply.path = << "year > 2020" >>
    /\ Len(reply.entries) = 6

(***************************************************************************)
(* Properties of mkdir (Spec).                                             *)
(***************************************************************************)
\* C15: a directory that mkdir has created resolves as a directory in
\* lookup and getattr, and every readdir of its parent that computes the
\* list from its start lists it as a directory, in the normal view and
\* under @flatten alike.
C15_ExtraDirSurfaced ==
    /\ (reply.op \in {"lookup", "getattr"} /\ Contains(extra_dirs, reply.path)) =>
          /\ reply.err = ""
          /\ reply.attr.kind = "Directory"
    /\ (reply.op = "readdir" /\ reply.computed /\ reply.offset = 0) =>
          \A k \in 1..Len(extra_dirs) :
              IsChildOf(extra_dirs[k], reply.path) =>
                  /\ reply.err = ""
                  /\ \E j \in 1..Len(reply.entries) :
                        /\ reply.entries[j].name = FileName(extra_dirs[k])
                        /\ reply.entries[j].kind = "Directory"

\* ---------------------------------------------------------------------
\* C16: mkdir(parent, name) adds parent/name to extra_dirs and replies a
\* directory attribute whose inode was not allocated before the call,
\* whatever lookups, readdirs and mkdirs came before.
\* ---------------------------------------------------------------------
Allocated(ino) == ino = 1 \/ ino \in DOMAIN ino_to_path

C16_MkdirFreshIno ==
    [][(reply'.op = "mkdir") =>
          /\ Contains(extra_dirs', reply'.path)
          /\ reply'.path = ChildPath(reply'.ino, reply'.name)
          /\ reply'.attr.kind = "Directory"
          /\ ~Allocated(reply'.attr.ino)]_vars

\* C17: a directory that mkdir created lists as an empty directory: its
\* listing holds ".", "..", "@flatten" and the directories that mkdir
\* created beneath it, and no point entry and no tag entry, whatever name
\* mkdir was given.
C17_MkdirListsEmpty ==
    (reply.op = "list_normal" /\ Contains(extra_dirs, reply.path)) =>
        Shown(reply.entries) = ShownDots \o ShownExtras(reply.path)

\* C18: no upcall changes the points, tags or joins of the index; mkdir
\* changes only extra_dirs and the identity table; flush, read and
\* readlink change no mount state at all.
C18_Frame ==
    [][/\ index' = index
       /\ (reply'.op = "mkdir") =>
             <<next_fh, fh_to_path, dir_entries>>' = <<next_fh, fh_to_path, dir_entries>>
       /\ (reply'.op \in {"flush", "read", "readlink"}) => mount' = mount]_vars

\* A flush answered after a mkdir and an open have left their marks.
C18_Witness ==
    /\ reply.op = "flush"
    /\ reply.fh \in DOMAIN fh_to_path
    /\ extra_dirs # << >>
    /\ ino_to_path # << >>

(***************************************************************************)
(* The command line (main.rs): add, tag, untag and remove, each one a      *)
(* process that runs alone against the index and ends.  The configuration  *)
(* names no store_dir and no delegate_dirs, so no ingestion precedes the   *)
(* command.                                                                *)
(***************************************************************************)
\* random_id: gen_range(0..1_000_000), the range scaled to IdRange.
IdRange == 2
RandomIds == 0..(IdRange - 1)

\* The backing files the commands are run on: path, file name, content
\* hash, whether a directory, and what libmagic says about the content.
File(path, name, hash, magic) ==
    [path |-> path, name |-> name, hash |-> hash, dir |-> FALSE, magic |-> magic]
Files == {File("/s/a.txt", "a.txt", "h1", "data"),
          File("/s/b.txt", "b.txt", "h2", "data")}

\* A tag argument (String, Option<(String, Option<i64>)>).
TagEntry(name, content) == [name |-> name, content |-> content]
Content(value, sort_value) == [value |-> value, sort_value |-> sort_value]

\* get_generic_tags_from_file for a content without further structure:
\* the first word of the magic string, in lower case, as the type.
GenericTags(file) == << TagEntry("type", Some(Content(file.magic, None))) >>

\* The index as one command sees it; ok is FALSE once an expect has
\* ended the process, what it wrote before stays written.
Db == [points |-> points, tags |-> tags, joins |-> joins, ok |-> TRUE]

\* insert_into(..).execute(..).expect(..): a taken primary key fails.
InsertPoint(db, row) ==
    IF \E p \in db.points : p.id = row.id THEN [db EXCEPT !.ok = FALSE]
    ELSE [db EXCEPT !.points = @ \cup {row}]
InsertTag(db, row) ==
    IF \E t \in db.tags : t.id = row.id THEN [db EXCEPT !.ok = FALSE]
    ELSE [db EXCEPT !.tags = @ \cup {row}]
InsertJoin(db, row) ==
    IF \E j \in db.joins : j.id = row.id THEN [db EXCEPT !.ok = FALSE]
    ELSE [db EXCEPT !.joins = @ \cup {row}]

\* The rows the first query of tag_point selects from (limit 1 takes one
\* of them, no order is asked for).
\* (Variant: the query finds no row.)
ExistingTagsNone(db, tag_name, tag_content) == {}
ExistingTags(db, tag_name, tag_content) ==
    IF IsSome(tag_content)
    THEN {t \in db.tags : t.name = tag_name
                          /\ t.value = Some(Unwrap(tag_content).value)}
    ELSE {t \in db.tags : t.name = tag_name}

NewTag(id, tag_name, tag_content) ==
    IF IsSome(tag_content)
    THEN Tag(id, tag_name, Some(Unwrap(tag_content).value),
             Unwrap(tag_content).sort_value)
    ELSE Tag(id, tag_name, None, None)

\* The second half of tag_point: the join of (tag_id, id), inserted under
\* a random id when there is none.
\* (Variant: the join is inserted without looking.)
TagPointJoinAlways(db, id, tag_id) ==
    {InsertJoin(db, JoinRow(jid, tag_id, id)) : jid \in RandomIds}
TagPointJoin(db, id, tag_id) ==
    IF \E j \in db.joins : j.tag_id = tag_id /\ j.point_id = id THEN {db}
    ELSE {InsertJoin(db, JoinRow(jid, tag_id, id)) : jid \in RandomIds}

TagPointInserted(db, id, tag_id) ==
    IF db.ok THEN TagPointJoin(db, id, tag_id) ELSE {db}

TagPointFrom(db, id, tag_name, tag_content, existing_tags) ==
    IF existing_tags # {}
    THEN UNION {TagPointJoin(db, id, t.id) : t \in existing_tags}
    ELSE UNION {TagPointInserted(InsertTag(db, NewTag(tid, tag_name, tag_content)),
                                 id, tid) : tid \in RandomIds}

\* tag_point: the indexes one call can leave.
TagPoint(db, id, tag_name, tag_content) ==
    IF db.ok
    THEN TagPointFrom(db, id, tag_name, tag_content,
                      ExistingTags(db, tag_name, tag_content))
    ELSE {db}

\* for (tag_name, tag_content) in tags { tag_point(..) }
RECURSIVE TagPointEach(_, _, _)
TagPointEach(dbs, id, tag_entries) ==
    IF tag_entries = << >> THEN dbs
    ELSE TagPointEach(UNION {TagPoint(d, id, tag_entries[1].name,
                                      tag_entries[1].content) : d \in dbs},
                      id, Tail(tag_entries))

\* diesel::update(points.find(id)).set(path.eq(new_path))
SetPath(db, id, new_path) ==
    IF db.ok
    THEN [db EXCEPT !.points =
             {IF p.id = id THEN [p EXCEPT !.path = Some(new_path)] ELSE p : p \in @}]
    ELSE db
\* diesel::update(points.find(id)).set(hash.eq(new_hash))
SetHash(db, id, new_hash) ==
    IF db.ok
    THEN [db EXCEPT !.points =
             {IF p.id = id THEN [p EXCEPT !.hash = new_hash] ELSE p : p \in @}]
    ELSE db

\* update_point(connection, magic_file, Some(path), Some(hash), point)
UpdatePoint(dbs, file, point) ==
    {SetHash(d, point.id, file.hash) :
        d \in TagPointEach({SetPath(d0, point.id, file.path) : d0 \in dbs},
                           point.id, GenericTags(file))}

\* The point update_point_by_path goes on with: one found by path, else
\* one found by hash, else a new one under a random id.
NewPoint(id, file) ==
    [id |-> id, name |-> file.name, path |-> Some(file.path),
     hash |-> file.hash, dir |-> file.dir]

ExistingPoints(db, file) ==
    IF \E p \in db.points : p.path = Some(file.path)
    THEN {p \in db.points : p.path = Some(file.path)}
    ELSE {p \in db.points : p.hash = file.hash}

UpdatePointWith(db, file, tag_entries, point) ==
    UpdatePoint(TagPointEach({db}, point.id, tag_entries), file, point)

UpdateNewPoint(db, file, tag_entries, point) ==
    IF db.ok THEN UpdatePointWith(db, file, tag_entries, point) ELSE {db}

\* update_point_by_path
UpdatePointByPath(db, file, tag_entries, existing_points) ==
    IF existing_points # {}
    THEN UNION {UpdatePointWith(db, file, tag_entries, x) : x \in existing_points}
    ELSE UNION {UpdateNewPoint(InsertPoint(db, NewPoint(pid, file)), file,
                               tag_entries, NewPoint(pid, file)) :
                   pid \in RandomIds}

\* What a command leaves behind.
Commit(op, db) ==
    /\ points' = db.points
    /\ tags' = db.tags
    /\ joins' = db.joins
    /\ reply' = [NoReply EXCEPT !.op = op]
    /\ UNCHANGED mount

\* "add" <path> [name[=value]]...
CliContent(value) == Some(Content(Unwrap(value), ParseInt(Unwrap(value))))
CliTag(arg) ==
    TagEntry(arg.name, IF IsSome(arg.value) THEN CliContent(arg.value) ELSE None)
Add(file, arg) ==
    \E db \in UpdatePointByPath(Db, file, [i \in 1..Len(arg) |-> CliTag(arg[i])],
                                ExistingPoints(Db, file)) :
        Commit("add", db)

\* "tag" <id> <tag_name> [value]
TagCmd(id, arg) ==
    \E db \in TagPoint(Db, id, arg.name, CliTag(arg).content) :
        Commit("tag", db)

\* "remove" <id>
RemoveCmd(id) ==
    Commit("remove",
           [Db EXCEPT !.points = {p \in @ : p.id # id},
                      !.joins = {j \in @ : j.point_id # id}])

\* "untag" <id> <tag_name>
\* (Variant: the first of the tags found is detached.)
UntagFirst(id, tag_name, p) ==
    IF Len(p[1]) >= 1
    THEN Commit("untag",
                [Db EXCEPT !.joins = {j \in @ : ~(j.point_id = id
                                                  /\ j.tag_id = p[1][1].id)}])
    ELSE Commit("untag", Db)
UntagOf(id, tag_name, p) ==
    IF Len(p[1]) = 1
    THEN Commit("untag",
                [Db EXCEPT !.joins = {j \in @ : ~(j.point_id = id
                                                  /\ j.tag_id = p[1][1].id)}])
    ELSE Commit("untag", Db)
UntagCmd(id, tag_name) == UntagOf(id, tag_name, GetTagsByParts(<< tag_name >>))

\* The arguments given to the commands.
Arg(name, value) == [name |-> name, value |-> value]
TagArgs == {Arg("kind", Some("text")), Arg("kind", None)}
AddArgs == {<< >>, << Arg("kind", Some("text")) >>}
UntagNames == {"kind", "kind = text"}

CliInit ==
    /\ points = {}
    /\ tags = {}
    /\ joins = {}
    /\ MountInit

CliNext ==
    \/ \E file \in Files, arg \in AddArgs : Add(file, arg)
    \/ \E id \in RandomIds, arg \in TagArgs : TagCmd(id, arg)
    \/ \E id \in RandomIds, tag_name \in UntagNames : UntagCmd(id, tag_name)
    \/ \E id \in RandomIds : RemoveCmd(id)

CliSpec == CliInit /\ [][CliNext]_vars

(***************************************************************************)
(* Properties of the index under the commands (CliSpec).                   *)
(***************************************************************************)
\* C19: after any sequence of add, tag, untag and remove commands no two
\* join rows share the same (point_id, tag_id).
C19_JoinPairsUnique ==
    \A j1 \in joins, j2 \in joins :
        (j1.point_id = j2.point_id /\ j1.tag_id = j2.tag_id) => j1 = j2

\* After a tag command the index holds a point with two joins.
C19_Witness ==
    /\ reply.op = "tag"
    /\ \E j1 \in joins, j2 \in joins :
          /\ j1 # j2
          /\ j1.point_id = j2.point_id
          /\ \E p \in points : p.id = j1.point_id

\* C20: after any sequence of add, tag, untag and remove commands, with
\* any id arguments, every join row references a point that is in points
\* and a tag that is in tags.
C20_JoinsReferToRows ==
    \A j \in joins :
        /\ \E p \in points : p.id = j.point_id
        /\ \E t \in tags : t.id = j.tag_id

\* The joins without the one of point id and tag t.
Detached(id, t) == {j \in joins : ~(j.point_id = id /\ j.tag_id = t.id)}

\* C21 as stated: untag <id> <tag_name> deletes the join of the point
\* and the first tag returned for the name expression, also when several
\* tags match it, and changes nothing else.
UntagsFirstOf(id, found_tags) ==
    /\ points' = points
    /\ tags' = tags
    /\ joins' = IF found_tags = << >> THEN joins ELSE Detached(id, found_tags[1])

UntagsFirst(tag_name, p) ==
    \A id \in RandomIds : UntagOf(id, tag_name, p) => UntagsFirstOf(id, p[1])

C21_UntagFirst ==
    [][reply'.op = "untag" =>
          \A tag_name \in UntagNames :
              \A p \in {GetTagsByParts(<< tag_name >>)} :
                  UntagsFirst(tag_name, p)]_vars

\* C21 amended: untag deletes the join of the point and the tag only when
\* exactly one tag matches the name expression; when none or several
\* match, the command changes nothing.
UntagsOnlyOf(id, found_tags) ==
    /\ points' = points
    /\ tags' = tags
    /\ joins' = IF Len(found_tags) = 1 THEN Detached(id, found_tags[1]) ELSE joins

UntagsOnly(tag_name, p) ==
    \A id \in RandomIds : UntagOf(id, tag_name, p) => UntagsOnlyOf(id, p[1])

C21_UntagExactlyOne ==
    [][reply'.op = "untag" =>
          \A tag_name \in UntagNames :
              \A p \in {GetTagsByParts(<< tag_name >>)} :
                  UntagsOnly(tag_name, p)]_vars

\* An untag has run and a point stands without a tag that one name
\* expression singles out, next to joins that stayed.
C21_Witness ==
    /\ reply.op = "untag"
    /\ joins # {}
    /\ \E p \in points, t \in tags :
          /\ Len(GetTagsByParts(<< t.name >>)[1]) = 1
          /\ \A j \in joins : ~(j.point_id = p.id /\ j.tag_id = t.id)

\* The step is a tag command of point id with argument arg that ran to
\* its end.
Tagged(id, arg) ==
    \E db \in TagPoint(Db, id, arg.name, CliTag(arg).content) :
        /\ db.ok
        /\ points' = db.points
        /\ tags' = db.tags
        /\ joins' = db.joins
        /\ reply'.op = "tag"

\* C22: after tag <id> <tag_name> [value] the point id is joined to a tag
\* whose name is tag_name and whose value is the given value, a tag
\* without value when none was given, whatever the tags table held.
C22_TagJoinsNamedValue ==
    [][\A id \in RandomIds, arg \in TagArgs :
          Tagged(id, arg) =>
              \E j \in joins', t \in tags' :
                  /\ j.point_id = id
                  /\ j.tag_id = t.id
                  /\ t.name = arg.name
                  /\ t.value = arg.value]_vars

(***************************************************************************)
(* Ingestion (main.rs): add, update-all and the walk of a store            *)
(* directory, run against an index whose backing files may have changed    *)
(* since they were added.                                                  *)
(***************************************************************************)
\* The backing files that exist now; c.txt has the content of a.txt.
StoreFiles == Files \cup {File("/s/c.txt", "c.txt", "h1", "data")}

\* fs::metadata(path).is_ok()
Exists(path) == \E f \in StoreFiles : f.path = path
FileAt(path) == CHOOSE f \in StoreFiles : f.path = path

\* str::trim
RECURSIVE TrimStart(_)
TrimStart(s) == IF s # "" /\ IsSpace(Ch(s, 1)) THEN TrimStart(SubSeq(s, 2, Len(s))) ELSE s
RECURSIVE TrimEnd(_)
TrimEnd(s) ==
    IF s # "" /\ IsSpace(Ch(s, Len(s))) THEN TrimEnd(SubSeq(s, 1, Len(s) - 1)) ELSE s
Trim(s) == TrimEnd(TrimStart(s))

\* One component of a store location as a tag entry, fields being the
\* trimmed pieces between its '=' signs; None where the code panics.
PartToTagOf(fields, sort_value) ==
    IF Len(fields) = 3
    THEN IF IsSome(sort_value)
         THEN Some(TagEntry(fields[1], Some(Content(fields[2], sort_value))))
         ELSE None
    ELSE IF Len(fields) = 2
    THEN Some(TagEntry(fields[1], Some(Content(fields[2], None))))
    ELSE IF Len(fields) = 1 THEN Some(TagEntry(fields[1], None))
    ELSE None

TrimAll(pieces) == [i \in 1..Len(pieces) |-> Trim(pieces[i])]

PartToTagFrom(fields) ==
    PartToTagOf(fields, IF Len(fields) = 3 THEN ParseInt(fields[3]) ELSE None)

PartToTag(path_part) == PartToTagFrom(TrimAll(Split(path_part, "=")))

\* path_parts_to_tags: the tag entries of the components, None when one
\* of them makes the function panic.
PathPartsToTags(path_parts) ==
    IF \E i \in 1..Len(path_parts) : ~IsSome(PartToTag(path_parts[i])) THEN None
    ELSE Some([i \in 1..Len(path_parts) |-> Unwrap(PartToTag(path_parts[i]))])

\* store_path_to_name_and_tags: the components of the parent of the
\* relative path, split at '/'; the parent of a top-level file is "".
StoreParts(dir) == IF dir = << >> THEN << "" >> ELSE dir

\* One regular file of the walk: the directories above it, relative to
\* the store, and the file.
StoreEntry(dir, file) == [dir |-> dir, file |-> file]

\* The body of the loop of load_store for one entry and one index.
LoadEntryWith(db, entry, maybe_tags) ==
    IF ~db.ok THEN {db}
    ELSE IF ~IsSome(maybe_tags) THEN {[db EXCEPT !.ok = FALSE]}
    ELSE UpdatePointByPath(db, entry.file, Unwrap(maybe_tags),
                           ExistingPoints(db, entry.file))

LoadEntry(dbs, entry) ==
    UNION {LoadEntryWith(d, entry, PathPartsToTags(StoreParts(entry.dir))) : d \in dbs}

\* load_store, walk being the regular files in the order WalkDir yields
\* them; the store holds no @flat-info.
RECURSIVE LoadStoreEach(_, _)
LoadStoreEach(dbs, walk) ==
    IF walk = << >> THEN dbs
    ELSE LoadStoreEach(LoadEntry(dbs, walk[1]), Tail(walk))

\* A command of a configuration with a store_dir: the store is ingested,
\* and the command itself does nothing more ("CNF").
LoadStore(walk) ==
    \E db \in LoadStoreEach({Db}, walk) : Commit("ingest", db)

\* diesel::update(points.find(id)).set(path.eq(None))
SetPathNull(db, id) ==
    IF db.ok
    THEN [db EXCEPT !.points =
             {IF p.id = id THEN [p EXCEPT !.path = None] ELSE p : p \in @}]
    ELSE db

\* update_point(connection, magic_file, None, None, point)
UpdatePointNone(dbs, point) ==
    IF ~IsSome(point.path) THEN dbs
    ELSE IF ~Exists(Unwrap(point.path))
    THEN {SetPathNull(d, point.id) : d \in dbs}
    ELSE TagPointEach(dbs, point.id, GenericTags(FileAt(Unwrap(point.path))))

RECURSIVE UpdateAllEach(_, _)
UpdateAllEach(dbs, loaded) ==
    IF loaded = << >> THEN dbs
    ELSE UpdateAllEach(UpdatePointNone(dbs, loaded[1]), Tail(loaded))

\* "update-all"
UpdateAll ==
    \E db \in UpdateAllEach({Db}, SortById(points)) : Commit("update-all", db)

\* Indexes that earlier add commands left, the files having changed
\* since: none added yet; a.txt added and then moved away (to c.txt);
\* b.txt added and then rewritten.
PointMoved == [id |-> 0, name |-> "a.txt", path |-> Some("/s/old.txt"),
               hash |-> "h1", dir |-> FALSE]
PointRewritten == [id |-> 1, name |-> "b.txt", path |-> Some("/s/b.txt"),
                   hash |-> "h0", dir |-> FALSE]
IngestIndexes ==
    {[points |-> {}, tags |-> {}, joins |-> {}],
     [points |-> {PointMoved}, tags |-> {Tag(0, "type", Some("data"), None)},
      joins |-> {JoinRow(0, 0, 0)}],
     [points |-> {PointRewritten}, tags |-> {Tag(0, "type", Some("data"), None)},
      joins |-> {JoinRow(0, 0, 1)}]}

\* The walks of the stores: well-formed locations, one with four fields
\* and one with a sort value that is no integer.
StoreWalks ==
    {<< StoreEntry(<< "kind=text" >>, FileAt("/s/a.txt")) >>,
     << StoreEntry(<< "a=b=c=d" >>, FileAt("/s/a.txt")),
        StoreEntry(<< "kind=text" >>, FileAt("/s/b.txt")) >>,
     << StoreEntry(<< "kind=text" >>, FileAt("/s/a.txt")),
        StoreEntry(<< "year=2020=x" >>, FileAt("/s/b.txt")) >>,
     << StoreEntry(<< "year = 2020 = 2020" >>, FileAt("/s/b.txt")) >>}

IngestInit ==
    /\ \E ix \in IngestIndexes :
          /\ points = ix.points
          /\ tags = ix.tags
          /\ joins = ix.joins
    /\ MountInit

IngestNext ==
    \/ \E file \in StoreFiles : Add(file, << >>)
    \/ UpdateAll
    \/ \E walk \in StoreWalks : LoadStore(walk)
    \/ \E id \in RandomIds : RemoveCmd(id)

IngestSpec == IngestInit /\ [][IngestNext]_vars

(***************************************************************************)
(* Properties of ingestion (CliSpec, IngestSpec).                          *)
(***************************************************************************)
\* The step is an add of the file, without tag arguments, that ran to its
\* end.
Added(file) ==
    \E db \in UpdatePointByPath(Db, file, << >>, ExistingPoints(Db, file)) :
        /\ db.ok
        /\ points' = db.points
        /\ tags' = db.tags
        /\ joins' = db.joins
        /\ reply'.op = "add"

HasPointAt(pts, path) == \E p \in pts : p.path = Some(path)

\* C23: every ingested entry gets its own point: after an add the path is
\* the path of some point, and so is still every existing path that was
\* the path of a point before, also when files have identical content; a
\* path whose content hash matches a point whose old path is gone re-uses
\* that point.
C23_OwnPointPerPath ==
    [][\A file \in StoreFiles :
          Added(file) =>
              /\ HasPointAt(points', file.path)
              /\ \A g \in StoreFiles :
                    HasPointAt(points, g.path) => HasPointAt(points', g.path)
              /\ (/\ ~HasPointAt(points, file.path)
                  /\ \E p \in points : /\ p.hash = file.hash
                                       /\ IsSome(p.path)
                                       /\ ~Exists(Unwrap(p.path)))
                     => {p.id : p \in points'} = {p.id : p \in points}]_vars

\* The step is an update-all that ran to its end.
UpdatedAll ==
    \E db \in UpdateAllEach({Db}, SortById(points)) :
        /\ db.ok
        /\ points' = db.points
        /\ tags' = db.tags
        /\ joins' = db.joins
        /\ reply'.op = "update-all"

\* What C24 says of one point p and the row q that update-all left of it.
Reconciled(p, q) ==
    IF IsSome(p.path) /\ ~Exists(Unwrap(p.path)) THEN q.path = None
    ELSE IF IsSome(p.path) /\ FileAt(Unwrap(p.path)).hash # p.hash
    THEN q.hash = FileAt(Unwrap(p.path)).hash
    ELSE q = p

\* C24: after update-all every point whose backing path no longer exists
\* has path NULL, every point whose stored hash differs from the current
\* content hash of its existing backing path has the current hash, and
\* the points whose path and hash are consistent are unchanged.
C24_UpdateAllReconciles ==
    [][UpdatedAll =>
          \A p \in points : \E q \in points' : q.id = p.id /\ Reconciled(p, q)]_vars

\* The entries of a walk whose location parses.
RECURSIVE WellFormed(_)
WellFormed(walk) ==
    IF walk = << >> THEN << >>
    ELSE (IF IsSome(PathPartsToTags(StoreParts(walk[1].dir))) THEN << walk[1] >>
          ELSE << >>) \o WellFormed(Tail(walk))

\* The step leaves an index that ingesting the walk can leave.
Ingests(walk) ==
    \E db \in LoadStoreEach({Db}, walk) :
        /\ points' = db.points
        /\ tags' = db.tags
        /\ joins' = db.joins

\* C25: an entry whose location does not parse as tag expressions is
\* skipped and the walk goes on: ingesting a store leaves what ingesting
\* its well-formed entries alone leaves.
C25_BadEntrySkipped ==
    [][\A walk \in StoreWalks :
          (reply'.op = "ingest" /\ Ingests(walk)) => Ingests(WellFormed(walk))]_vars

(***************************************************************************)
(* Properties of the error replies.                                        *)
(***************************************************************************)
\* The names of the entries, in their order.
NameSeq(entries) == [j \in 1..Len(entries) |-> entries[j].name]

\* C26 as stated: readdir on a flattened path whose combined query path
\* names a point that is no directory replies ENOTDIR, delivers no
\* entries and stores nothing in the readdir cache; when the point is a
\* directory the listing is ".", ".." and the single child "@dir".
DirPointListing(found, names_of_dir) ==
    IF ~IsSome(found) THEN TRUE
    ELSE IF ~Unwrap(found).dir
    THEN /\ reply.err = "ENOTDIR"
         /\ reply.entries = << >>
         /\ reply.cache = None
    ELSE /\ reply.err = ""
         /\ NameSeq(reply.entries) = names_of_dir
         /\ \A j \in 3..Len(reply.entries) : reply.entries[j].kind = "RegularFile"

C26_DirPointOnlyDir ==
    reply.op = "list_flat_dir" =>
        DirPointListing(LookupPointByName(ParsePath(reply.path).query),
                        << ".", "..", "@dir" >>)

\* C26 amended: when no component follows "@flatten", the listing of a
\* directory point holds "@flat-info" before "@dir".
C26_DirPointListing ==
    reply.op = "list_flat_dir" =>
        DirPointListing(LookupPointByName(ParsePath(reply.path).query),
                        IF ParsePath(reply.path).flat = << >>
                        THEN << ".", "..", "@flat-info", "@dir" >>
                        ELSE << ".", "..", "@dir" >>)

\* The listing of the @flatten directory of a directory point.
C26_Witness ==
    /\ reply.op = "list_flat_dir"
    /\ reply.err = ""
    /\ ParsePath(reply.path).flat = << >>
    /\ IsSome(LookupPointByName(ParsePath(reply.path).query))
    /\ Len(reply.entries) = 4

\* The path a read of handle fh on inode ino is about: that of the
\* handle, else that of the inode, if any.
ResolvedForRead(ino, fh) ==
    IF fh \in DOMAIN fh_to_path THEN Some(fh_to_path[fh])
    ELSE IF ino \in DOMAIN ino_to_path THEN Some(ino_to_path[ino])
    ELSE None

EndsInFlatInfo(path) ==
    /\ Len(path) >= 2
    /\ SubSeq(path, Len(path) - 1, Len(path)) = << "@flatten", "@flat-info" >>

\* C27: read replies with data exactly when the path resolved from the
\* file handle, or from the inode when the handle is unknown, ends with
\* "@flatten", "@flat-info"; otherwise, and when neither is bound, it
\* replies ENOENT.
ReadReplyFor(resolved) ==
    IF IsSome(resolved) /\ EndsInFlatInfo(Unwrap(resolved))
    THEN reply.err = "" /\ reply.path = Unwrap(resolved)
    ELSE reply.err = "ENOENT" /\ reply.data = ""

StrayInos == {next_ino}

StrayNext ==
    \/ Next
    \/ \E ino \in StrayInos : Idle /\ Getattr(ino)
    \/ \E ino \in StrayInos, name \in LookupNames : Idle /\ Lookup(ino, name)
    \/ \E ino \in StrayInos : Idle /\ Readdir(ino, 0)
    \/ \E ino \in StrayInos : Idle /\ Readlink(ino)
    \/ \E ino \in StrayInos, name \in MkdirNames : Idle /\ Mkdir(ino, name)
    \/ \E ino \in StrayInos : Idle /\ Open(ino)

StraySpec == Init /\ [][StrayNext]_vars

\* C28: lookup, getattr, readdir, open, readlink and mkdir on an inode
\* that is neither 1 nor bound in ino_to_path reply ENOENT and change no
\* mount state.
C28_UnboundIsEnoent ==
    [][(/\ reply'.op \in {"lookup", "getattr", "readdir", "open", "readlink", "mkdir"}
        /\ reply'.ino # 1
        /\ reply'.ino \notin DOMAIN ino_to_path)
          => (reply'.err = "ENOENT" /\ mount' = mount)]_vars

(***************************************************************************)
(* Properties of the identifiers (Spec).                                   *)
(***************************************************************************)
\* C29: inodes are allocated from 2 and file handles from 1, each
\* allocation of a kind one greater than the one before, and every
\* successful open returns a handle that was never returned before, bound
\* to the path of the inode.
C29_MonotoneIds ==
    [][/\ DOMAIN ino_to_path' = 2..(next_ino' - 1)
       /\ DOMAIN fh_to_path' = 1..(next_fh' - 1)
       /\ next_ino' >= next_ino
       /\ next_fh' \in {next_fh, next_fh + 1}
       /\ \A i \in DOMAIN ino_to_path : ino_to_path'[i] = ino_to_path[i]
       /\ \A fh \in DOMAIN fh_to_path : fh_to_path'[fh] = fh_to_path[fh]
       /\ (reply'.op = "open" /\ reply'.err = "") =>
             /\ reply'.fh = next_fh
             /\ reply'.fh \notin DOMAIN fh_to_path
             /\ next_fh' = next_fh + 1
             /\ fh_to_path'[reply'.fh] = ino_to_path[reply'.ino]]_vars

\* The second open of one inode.
C29_Witness ==
    /\ reply.op = "open"
    /\ reply.err = ""
    /\ reply.fh = 2
    /\ fh_to_path[1] = fh_to_path[2]
    /\ next_ino > 2

(***************************************************************************)
(* Listings against lookups (QuerySpec).                                   *)
(***************************************************************************)
\* C30: every entry that a freshly computed readdir of a directory lists,
\* other than "." and "..", resolves in a lookup under that directory,
\* and an entry listed as a directory resolves as a directory, whatever
\* the index holds.
C30_ListedResolves ==
    reply.op = "resolve_listed" =>
        \A j \in 1..Len(reply.entries) :
            /\ reply.entries[j].ok
            /\ reply.entries[j].kind = "Directory" =>
                  reply.entries[j].attr.kind = "Directory"

(***************************************************************************)
(* Properties of the listings and of the resolver, second part.            *)
(***************************************************************************)
\* C31: the inode a listing reports for an entry is the inode of that
\* entry's path: for every entry other than "." and ".." that readdir
\* computed for the directory reply.path, with name N and inode i,
\* ino_to_path[i] is reply.path/N, and two entries with different names
\* never carry the same inode.
C31_EntryInoIsPathIno ==
    (reply.op = "readdir" /\ reply.computed /\ reply.err = "") =>
        /\ \A k \in 1..Len(reply.entries) :
              reply.entries[k].offset > 2 =>
                  /\ reply.entries[k].ino \in DOMAIN ino_to_path
                  /\ ino_to_path[reply.entries[k].ino]
                         = Join(reply.path, reply.entries[k].name)
        /\ \A k \in 1..Len(reply.entries), l \in 1..Len(reply.entries) :
              (reply.entries[k].offset > 2 /\ reply.entries[l].offset > 2
               /\ reply.entries[k].name # reply.entries[l].name) =>
                  reply.entries[k].ino # reply.entries[l].ino

\* What a flattened listing shows for the points matched under the query
\* q: the first of the sorted remaining tags of each point that has some,
\* as a directory, and each point that has none and has a backing path,
\* under its full name and with the file type KindOf gives it.
LinkKind(point) == "Symlink"
FlatShown(q, matched, KindOf(_)) ==
    {<< "Directory", FirstSorted(FullTags(pt, q)) >> :
        pt \in {m \in Range(matched) : FullTags(m, q) # {}}}
    \cup {<< KindOf(pt), PointFullName(pt) >> :
             pt \in {m \in Range(matched) : FullTags(m, q) = {} /\ IsSome(m.path)}}

\* The entries after "." and "..".
Children(entries) == SubSeq(entries, 3, Len(entries))

NoNameTwice(entries) ==
    \A j \in 1..Len(entries), k \in 1..Len(entries) :
        entries[j].name = entries[k].name => j = k

\* C32 as stated: for a flattened path that names no point, readdir lists
\* the smallest remaining tag of every matching point that has one as a
\* directory (each at most once), and every matching point without a
\* remaining tag and with a backing path as a symlink "<name>.<id>";
\* no point with a NULL backing path is listed.
FlatListingHolds(q, matched, shown) ==
    /\ FlatShown(q, matched, LinkKind) \subseteq shown
    /\ \A pt \in Range(matched) :
          pt.path = None =>
              \A e \in shown : e[2] # PointFullName(pt)

C32_FlatListing ==
    (reply.op = "list_flat_dir"
     /\ LookupPointByName(ParsePath(reply.path).query) = None) =>
        /\ NoNameTwice(reply.entries)
        /\ FlatListingHolds(ParsePath(reply.path).query,
                            GetPointsByParts(ParsePath(reply.path).query),
                            Range(Shown(Children(reply.entries))))

\* C32 amended: a matching point without a remaining tag and with a
\* backing path is listed as a directory when it is a directory point and
\* as a symlink otherwise; with "@flat-info" when no component follows
\* "@flatten", these are all the entries after "." and "..".
FlatListingIs(p, matched, shown) ==
    shown = FlatShown(p.query, matched, PointKind)
            \cup (IF p.flat = << >> THEN {<< "RegularFile", "@flat-info" >>} ELSE {})

C32_FlatListingByKind ==
    (reply.op = "list_flat_dir"
     /\ LookupPointByName(ParsePath(reply.path).query) = None) =>
        /\ reply.err = ""
        /\ NoNameTwice(reply.entries)
        /\ FlatListingIs(ParsePath(reply.path),
                         GetPointsByParts(ParsePath(reply.path).query),
                         Range(Shown(Children(reply.entries))))

\* A flattened listing with a tag directory, a symlink, and a matching
\* point without tags that is left out for its NULL path.
C32_Witness ==
    /\ reply.op = "list_flat_dir"
    /\ ParsePath(reply.path).query = << >>
    /\ \E e \in Range(Children(reply.entries)) : e.kind = "Symlink"
    /\ \E e \in Range(Children(reply.entries)) :
          e.kind = "Directory" /\ \E t \in tags : FormatTag(t) = e.name
    /\ \E pt \in points : pt.path = None /\ \A j \in joins : j.point_id # pt.id

\* The tag expressions of a path: its components, without "@flatten" for
\* a flattened one.
QueryOf(p) == IF p.kind = "Flattened" THEN p.query ELSE p.names

\* The names of the tag directories among the entries listed for path:
\* the directories named like a tag that mkdir did not create.
TagDirNames(path, entries) ==
    {e.name : e \in {c \in Range(Children(entries)) :
                        /\ c.kind = "Directory"
                        /\ \E t \in tags : FormatTag(t) = c.name
                        /\ ~Contains(extra_dirs, Join(path, c.name))}}

\* C33: in the normal and in the flattened view, no tag directory entry
\* that readdir lists for the path P is named like a component of P (for
\* a flattened P, a component of filter ++ flat).
C33_TagOncePerPath ==
    reply.op \in {"list_normal", "list_flat_dir"} =>
        TagDirNames(reply.path, reply.entries)
            \cap Range(QueryOf(ParsePath(reply.path))) = {}

\* A listing with a tag directory, for a path with a component that is
\* the display string of a tag of a matching point.
SuppressedAt(q, matched) ==
    \E pt \in Range(matched) :
        \E t \in Range(GetTagsForPoint(pt)) : Contains(q, FormatTag(t))

C33_Witness ==
    /\ reply.op \in {"list_normal", "list_flat_dir"}
    /\ TagDirNames(reply.path, reply.entries) # {}
    /\ SuppressedAt(QueryOf(ParsePath(reply.path)),
                    GetPointsByParts(QueryOf(ParsePath(reply.path))))

\* C34: in the normal view a point name resolves only where the point is
\* listed: when lookup(P, "<name>.<id>") answers with a symlink attribute,
\* the point with that id has a backing path and is one of the points
\* matching the tag expressions of P.
ListedUnder(parent_names, found) ==
    /\ IsSome(found)
    /\ IsSome(Unwrap(found).path)
    /\ Unwrap(found) \in Range(GetPointsByParts(parent_names))

C34_PointResolvesWhereListed ==
    (reply.op = "lookup" /\ reply.err = "" /\ reply.attr.kind = "Symlink"
     /\ ParsePath(reply.path).kind = "Normal") =>
        ListedUnder(Parent(reply.path), LookupPointByName(reply.path))

\* C35: no listing that readdir computes holds the same entry name twice,
\* also after a repeated mkdir of one name and after a mkdir of a name
\* that is the display string of a tag listed in the parent.
C35_NoEntryNameTwice ==
    reply.op \in {"list_normal", "list_flat_dir"} => NoNameTwice(reply.entries)

\* C36: in every reachable state every key i of ino_to_point is a bound
\* inode, and the last component of ino_to_path[i] is "<name>.<id>" of
\* the point that ino_to_point[i] holds.
C36_PointInosNamed ==
    \A i \in DOMAIN ino_to_point :
        /\ i \in DOMAIN ino_to_path
        /\ FileName(ino_to_path[i]) = PointFullName(ino_to_point[i])

\* A point is remembered for an inode of the flattened view and for one
\* of the normal view.
C36_Witness ==
    /\ \E i \in DOMAIN ino_to_point : Contains(ino_to_path[i], "@flatten")
    /\ \E i \in DOMAIN ino_to_point : ~Contains(ino_to_path[i], "@flatten")

(***************************************************************************)
(* parse_path on paths given by their components.                          *)
(***************************************************************************)
MaxComponents == 3
RawComponents ==
    {RootDir, ParentDir, Normal("@flatten"), Normal("kind = text"),
     Normal("@flattened")}
RECURSIVE RawPathsOfLen(_)
RawPathsOfLen(n) ==
    IF n = 0 THEN {<< >>}
    ELSE {Append(raw, c) : raw \in RawPathsOfLen(n - 1), c \in RawComponents}
RawPaths == UNION {RawPathsOfLen(n) : n \in 0..MaxComponents}

\* parse_path(path) for the path with the components raw.
ParsePathOn(raw) ==
    /\ reply' = [op |-> "parse_path", raw |-> raw, parsed |-> ParsePath(PathNames(raw))]
    /\ UNCHANGED <<index, mount>>

ParseNext ==
    \/ Return
    \/ \E raw \in RawPaths : Idle /\ ParsePathOn(raw)

ParseSpec == CliInit /\ [][ParseNext]_vars

\* The names of the normal components of raw, in their order.
NormalAt(raw) == {i \in 1..Len(raw) : raw[i].kind = "Normal"}
RECURSIVE NamesFrom(_, _)
NamesFrom(raw, i) ==
    IF i > Len(raw) THEN << >>
    ELSE IF i \in NormalAt(raw) THEN << raw[i].name >> \o NamesFrom(raw, i + 1)
    ELSE NamesFrom(raw, i + 1)

\* names is split at position k into filter, flat and combined.
SplitAt(parsed, names, k) ==
    /\ names[k] = "@flatten"
    /\ \A j \in 1..(k - 1) : names[j] # "@flatten"
    /\ parsed.filter = [j \in 1..(k - 1) |-> names[j]]
    /\ parsed.flat = [j \in 1..(Len(names) - k) |-> names[k + j]]
    /\ parsed.query = parsed.filter \o parsed.flat

ParsedAs(raw, parsed, names) ==
    /\ parsed.kind = "Flattened" <=>
          \E i \in NormalAt(raw) : raw[i].name = "@flatten"
    /\ parsed.kind = "Flattened" => \E k \in 1..Len(names) : SplitAt(parsed, names, k)
    /\ parsed.kind # "Flattened" => parsed = [kind |-> "Normal", names |-> names]

\* C37: parse_path classifies a path as Flattened exactly when some
\* normal component equals "@flatten" (root and parent-traversal
\* components are passed over); it splits at the first such component:
\* filter is the components before it, flat those after it (a later
\* "@flatten" stays in flat), combined is filter ++ flat; otherwise the
\* result is Normal with all the components in their order.
C37_ParsePath ==
    reply.op = "parse_path" =>
        ParsedAs(reply.raw, reply.parsed, NamesFrom(reply.raw, 1))

\* A path with two "@flatten" components and a ".." component.
C37_Witness ==
    /\ reply.op = "parse_path"
    /\ reply.parsed.kind = "Flattened"
    /\ Contains(reply.parsed.flat, "@flatten")
    /\ Contains(reply.raw, ParentDir)

(***************************************************************************)
(* Two CLI processes in tag_point on one index.  Each statement that       *)
(* tag_point executes is one step of its process; reply holds, for each    *)
(* process, the statement it is at and the tag_id it has.                  *)
(***************************************************************************)
Procs == {1, 2}
RacePoint == PointA.id
RaceIndexes ==
    {[points |-> {PointA}, tags |-> {}, joins |-> {}],
     [points |-> {PointA}, tags |-> {Tag(5, "kind", Some("text"), None)}, joins |-> {}]}

RaceInit ==
    /\ \E ix \in RaceIndexes :
          /\ points = ix.points
          /\ tags = ix.tags
          /\ joins = ix.joins
    /\ next_ino = 2
    /\ next_fh = 1
    /\ path_to_ino = << >>
    /\ ino_to_path = << >>
    /\ ino_to_point = << >>
    /\ fh_to_path = << >>
    /\ extra_dirs = << >>
    /\ dir_entries = << >>
    /\ \E arg \in TagArgs :
          reply = [op |-> "tag_point", arg |-> arg,
                   pc |-> [p \in Procs |-> "find_tag"],
                   tag_id |-> [p \in Procs |-> 0]]

At(p, pc) == reply.op = "tag_point" /\ reply.pc[p] = pc
Goto(p, pc) == reply' = [reply EXCEPT !.pc[p] = pc]
GotoWith(p, pc, tag_id) == reply' = [reply EXCEPT !.pc[p] = pc, !.tag_id[p] = tag_id]

\* tags.filter(..).limit(1).load(..) and existing_tags.pop()
FindTagIn(p, existing_tags) ==
    /\ At(p, "find_tag")
    /\ \/ \E t \in existing_tags : GotoWith(p, "find_join", t.id)
       \/ existing_tags = {} /\ Goto(p, "insert_tag")
    /\ UNCHANGED <<index, mount>>

FindTag(p) ==
    FindTagIn(p, ExistingTags(Db, reply.arg.name, CliTag(reply.arg).content))

\* insert_into(tags::table) under a random id
InsertTagAs(p, tag_id, db) ==
    /\ At(p, "insert_tag")
    /\ tags' = db.tags
    /\ IF db.ok THEN GotoWith(p, "find_join", tag_id) ELSE Goto(p, "panicked")
    /\ UNCHANGED <<points, joins, mount>>

InsertNewTag(p) ==
    \E tag_id \in RandomIds :
        InsertTagAs(p, tag_id,
                    InsertTag(Db, NewTag(tag_id, reply.arg.name, CliTag(reply.arg).content)))

\* joins.filter(..).limit(1).load(..)
FindJoin(p) ==
    /\ At(p, "find_join")
    /\ IF \E j \in joins : j.tag_id = reply.tag_id[p] /\ j.point_id = RacePoint
       THEN Goto(p, "done")
       ELSE Goto(p, "insert_join")
    /\ UNCHANGED <<index, mount>>

\* insert_into(joins::table) under a random id
InsertJoinAs(p, db) ==
    /\ At(p, "insert_join")
    /\ joins' = db.joins
    /\ Goto(p, IF db.ok THEN "done" ELSE "panicked")
    /\ UNCHANGED <<points, tags, mount>>

InsertNewJoin(p) ==
    \E id \in RandomIds :
        InsertJoinAs(p, InsertJoin(Db, JoinRow(id, reply.tag_id[p], RacePoint)))

RaceNext ==
    \E p \in Procs :
        \/ FindTag(p)
        \/ InsertNewTag(p)
        \/ FindJoin(p)
        \/ InsertNewJoin(p)

TagRaceSpec == RaceInit /\ [][RaceNext]_vars

(***************************************************************************)
(* Properties of the tag rows (CliSpec, TagRaceSpec).                      *)
(***************************************************************************)
\* C38: after any sequence of add and tag commands run one at a time, no
\* two tag rows share the same (name, value).
C38_TagsUnique ==
    \A t1 \in tags, t2 \in tags :
        (t1.name = t2.name /\ t1.value = t2.value) => t1 = t2

\* After a tag command there are two tags of one name, and a tag that a
\* second command found and joined again.
C38_Witness ==
    /\ reply.op = "tag"
    /\ \E t1 \in tags, t2 \in tags : t1 # t2 /\ t1.name = t2.name
    /\ \E t \in tags : Cardinality({j \in joins : j.tag_id = t.id}) >= 2

\* C39: when two processes have run tag_point for the same point id and
\* the same tag name and value with their statements interleaved, the
\* index holds at most one tag row of that name and value and at most one
\* join row for each (point_id, tag_id).
RaceOver == \A p \in Procs : reply.pc[p] \in {"done", "panicked"}

C39_RaceKeepsUnique ==
    (reply.op = "tag_point" /\ RaceOver) =>
        /\ \A t1 \in tags, t2 \in tags :
              (t1.name = t2.name /\ t1.value = t2.value) => t1 = t2
        /\ \A j1 \in joins, j2 \in joins :
              (j1.point_id = j2.point_id /\ j1.tag_id = j2.tag_id) => j1 = j2

====
